---- MODULE Spec2Model ----
(***************************************************************************)
(* The access-path planner of src/mongo/db/query/planner_access.cpp as a   *)
(* state machine.  A predicate tree (heap of MatchExpression nodes, each   *)
(* leaf carrying the IndexTag the plan enumerator gave it) is turned into  *)
(* a tree of query solution nodes.  One call of buildIndexedDataAccess is  *)
(* one frame of `stack'; the loop of processIndexScans advances one child  *)
(* per step.  Positions and index numbers are 1-based here (the source is  *)
(* 0-based); IndexTag::kNoIndex and the null pointer are 0.                *)
(***************************************************************************)
EXTENDS Integers, Sequences, FiniteSets, TLC

VARIABLES
    exprs,      \* heap of MatchExpression nodes, by id
    solns,      \* heap of QuerySolutionNode objects, by id
    stack,      \* call stack: one frame per buildIndexedDataAccess call
    ret,        \* <<v>>: the callee has just returned v; NoRet: nothing pending
    status,     \* "running" | "done" | "aborted"
    result,     \* what the outermost call returned
    query,      \* the CanonicalQuery: [sort]
    input       \* the call's arguments: [root, inArr, exprs0]

vars == <<exprs, solns, stack, ret, status, result, query, input>>

(***************************************************************************)
(* Bounds of the model.                                                    *)
(***************************************************************************)
MaxChildren == 2     \* children of the root of the input tree
MaxGrand == 2        \* children of a nested logical / array node
MaxVal == 2          \* values a field can hold: 1..MaxVal

Values == 1..MaxVal

NULL == 0
kNoIndex == 0
NoRet == <<>>

(***************************************************************************)
(* Small utilities.                                                        *)
(***************************************************************************)
RemoveAt(s, i) == [j \in 1..(Len(s) - 1) |-> IF j < i THEN s[j] ELSE s[j + 1]]

Last(s) == s[Len(s)]

SeqsUpTo(S, n) == UNION {[1..k -> S] : k \in 0..n}

Range(s) == {s[i] : i \in DOMAIN s}

MinOf(S) == CHOOSE x \in S : \A y \in S : x <= y

(***************************************************************************)
(* The index catalog (const vector<IndexEntry>& indices).  A key element   *)
(* is [field, kind]; kind "1"/"-1" is a numeric direction, the others are  *)
(* String-typed key elements.                                              *)
(***************************************************************************)
Key(f, k) == [field |-> f, kind |-> k]

indices ==
    << [keyPattern |-> <<Key("a", "1"), Key("b", "-1")>>,
        multikey |-> FALSE, type |-> "btree"],
       [keyPattern |-> <<Key("c", "1"), Key("d", "1")>>,
        multikey |-> TRUE, type |-> "btree"],
       [keyPattern |-> <<Key("p", "1"), Key("q", "1"), Key("_fts", "text"),
                         Key("_ftsx", "1"), Key("s", "1"), Key("t", "1")>>,
        multikey |-> TRUE, type |-> "text"],
       [keyPattern |-> <<Key("loc", "2dsphere"), Key("x", "1")>>,
        multikey |-> FALSE, type |-> "2dsphere"],
       [keyPattern |-> <<Key("loc", "2d"), Key("x", "1")>>,
        multikey |-> FALSE, type |-> "2d"],
       [keyPattern |-> <<Key("p", "1"), Key("_fts", "text"), Key("_ftsx", "1")>>,
        multikey |-> TRUE, type |-> "text"] >>

IxBtree == 1
IxMulti == 2
IxText == 3
IxSphere == 4
Ix2d == 5
IxText1 == 6

nFields(k) == Len(indices[k].keyPattern)

IsStringKind(kind) == kind \in {"text", "2d", "2dsphere"}

\* BSONElement elt = index.keyPattern.firstElement(); String == elt.type() && "2d" == elt.String()
indexIs2D(k) == indices[k].keyPattern[1].kind = "2d"

(***************************************************************************)
(* MatchExpression nodes.                                                  *)
(*   type  : the MatchType                                                 *)
(*   idx,pos : the IndexTag (idx = kNoIndex: no tag)                       *)
(*   tight : the verdict the bounds builder gives for this predicate       *)
(*   val   : the value the predicate compares with                         *)
(*   kids  : the child vector (ids)                                        *)
(*   live  : FALSE once deleted                                            *)
(*   orig  : the node this one is a shallowClone() of (itself otherwise)   *)
(***************************************************************************)
Tightness == {"EXACT", "INEXACT_COVERED", "INEXACT_FETCH"}

LeafTypes == {"EQ", "LT", "GEO", "GEO_NEAR", "TEXT"}

numChildren(ex, e) == Len(ex[e].kids)

getChild(ex, e, i) == ex[e].kids[i]

HasTag(ex, e) == ex[e].idx # kNoIndex

\* MatchExpression::isLogical(): AND, OR, NOT, NOR.
isLogical(ex, e) == ex[e].type \in {"AND", "OR", "NOT", "NOR"}

\* Indexability::nodeCanUseIndexOnOwnField
nodeCanUseIndexOnOwnField(ex, e) == ex[e].type \in LeafTypes

\* Indexability::isBoundsGeneratingNot
isBoundsGeneratingNot(ex, e) ==
    /\ ex[e].type = "NOT"
    /\ numChildren(ex, e) = 1
    /\ ex[getChild(ex, e, 1)].type \in {"EQ", "LT"}

\* Indexability::isBoundsGenerating
isBoundsGenerating(ex, e) ==
    isBoundsGeneratingNot(ex, e) \/ nodeCanUseIndexOnOwnField(ex, e)

\* Indexability::arrayUsesIndexOnChildren
arrayUsesIndexOnChildren(ex, e) == ex[e].type \in {"ELEM_MATCH_OBJECT", "ALL"}

RECURSIVE Subtree(_, _)
\* The ids reachable from e through child vectors (e included).
Subtree(ex, e) ==
    {e} \cup UNION {Subtree(ex, ex[e].kids[i]) : i \in DOMAIN ex[e].kids}

\* delete e: the destructor of a node deletes its children.
Delete(ex, e) ==
    [i \in DOMAIN ex |->
        IF i \in Subtree(ex, e) THEN [ex[i] EXCEPT !.live = FALSE] ELSE ex[i]]

\* root->getChildVector()->erase(begin() + i)
EraseChild(ex, e, i) == [ex EXCEPT ![e].kids = RemoveAt(@, i)]

RECURSIVE CloneInto(_, _)
\* MatchExpression::shallowClone(): a fresh copy of the subtree, tags copied.
\* Returns [ex, id]: the heap with the copy appended and the copy's root.
CloneInto(ex, e) ==
    LET Add(prev, c) == [ex |-> c.ex, ids |-> Append(prev.ids, c.id)]
        Step(prev, kid) == Add(prev, CloneInto(prev.ex, kid))
        F[i \in 0..Len(ex[e].kids)] ==
            IF i = 0 THEN [ex |-> ex, ids |-> <<>>]
            ELSE Step(F[i - 1], ex[e].kids[i])
        Finish(done) ==
            [ex |-> Append(done.ex, [ex[e] EXCEPT !.kids = done.ids, !.live = TRUE]),
             id |-> Len(done.ex) + 1]
    IN Finish(F[Len(ex[e].kids)])

(***************************************************************************)
(* The bounds builder (IndexBoundsBuilder, outside this file).  An ordered *)
(* interval list is [name, intervals, reversed]: the field it is bound to  *)
(* ("" = not filled in), the set of values its intervals cover, and        *)
(* whether the list has been reversed by alignBounds.                      *)
(***************************************************************************)
EmptyOIL == [name |-> "", intervals |-> {}, reversed |-> FALSE]

\* The values the builder's intervals for predicate e cover: exactly the
\* values that satisfy it under an EXACT verdict, a superset otherwise.
Bnd(ex, e) ==
    IF ex[e].type = "NOT"
    THEN IF ex[e].tight = "EXACT" THEN Values \ {ex[e].val} ELSE Values
    ELSE IF ex[e].tight = "EXACT" THEN {ex[e].val}
    ELSE {ex[e].val, (ex[e].val % MaxVal) + 1}

\* IndexBoundsBuilder::translate(expr, keyElt, index, oilOut, tightnessOut)
translate(ex, e, keyElt) ==
    [oil |-> [name |-> keyElt.field, intervals |-> Bnd(ex, e), reversed |-> FALSE],
     tight |-> ex[e].tight]

\* IndexBoundsBuilder::translateAndIntersect
translateAndIntersect(ex, e, keyElt, oil) ==
    [oil |-> [oil EXCEPT !.intervals = @ \cap Bnd(ex, e)],
     tight |-> ex[e].tight]

\* IndexBoundsBuilder::translateAndUnion
translateAndUnion(ex, e, keyElt, oil) ==
    [oil |-> [oil EXCEPT !.intervals = @ \cup Bnd(ex, e)],
     tight |-> ex[e].tight]

\* IndexBoundsBuilder::allValuesForField(keyElt, oilOut)
allValuesForField(keyElt) ==
    [name |-> keyElt.field, intervals |-> Values, reversed |-> FALSE]

\* IndexBounds::isValidFor: a list of more than one point must run in the
\* direction of its key element.
isValidFor(bounds, keyPattern) ==
    \A i \in DOMAIN bounds :
        \/ Cardinality(bounds[i].intervals) <= 1
        \/ bounds[i].reversed = (keyPattern[i].kind = "-1")

\* IndexBoundsBuilder::alignBounds(bounds, keyPattern): reverses the list of
\* every descending key element, then verifies the result.
alignBounds(bounds, keyPattern) ==
    LET b == [i \in DOMAIN bounds |->
                 IF keyPattern[i].kind = "-1"
                 THEN [bounds[i] EXCEPT !.reversed = ~@]
                 ELSE bounds[i]]
    IN [bounds |-> b, ab |-> ~isValidFor(b, keyPattern)]

(***************************************************************************)
(* Query solution nodes.                                                   *)
(*   index    : the catalog entry whose keyPattern the node holds          *)
(*   bounds   : IndexScanNode::bounds / GeoNear2DSphereNode::baseBounds    *)
(*   filter   : id of the owned MatchExpression, or NULL                   *)
(*   kids     : children (ids)                                             *)
(*   prefix   : TextNode::indexPrefix                                      *)
(*   merged   : history: the predicates whose bounds went into the node,   *)
(*              [pred, pos, op, tight, fin] in order                       *)
(*   finished : history: how often finishLeafNode ran on the node          *)
(***************************************************************************)
BlankNode(t) ==
    [type |-> t, index |-> kNoIndex, multikey |-> FALSE, bounds |-> <<>>,
     filter |-> NULL, kids |-> <<>>, prefix |-> <<>>, sort |-> 0,
     live |-> TRUE, merged |-> <<>>, finished |-> 0]

LeafNodeTypes == {"IXSCAN", "GEO_2D", "GEO_NEAR_2DSPHERE", "TEXT"}

Merged(ex, e, pos, op, tight, node) ==
    [pred |-> ex[e].orig, pos |-> pos, op |-> op, tight |-> tight,
     fin |-> node.finished]

\* QueryPlannerAccess::makeLeafNode.  Returns [node, tight, ab]; ab = a
\* verify() failed.
makeLeafNode(ex, k, pos, e) ==
    IF ex[e].type = "GEO_NEAR" THEN
        LET n0 == [BlankNode("GEO_NEAR_2DSPHERE") EXCEPT
                      !.index = k,
                      !.bounds = [i \in 1..nFields(k) |-> EmptyOIL]]
        IN [node |-> [n0 EXCEPT !.merged = <<Merged(ex, e, pos, "near", "EXACT", n0)>>],
            tight |-> "EXACT", ab |-> indexIs2D(k)]
    ELSE IF indexIs2D(k) THEN
        LET n0 == [BlankNode("GEO_2D") EXCEPT !.index = k]
        IN [node |-> [n0 EXCEPT !.merged = <<Merged(ex, e, pos, "geo", "EXACT", n0)>>],
            tight |-> "EXACT", ab |-> ex[e].type # "GEO"]
    ELSE IF ex[e].type = "TEXT" THEN
        LET n0 == [BlankNode("TEXT") EXCEPT !.index = k]
        IN [node |-> [n0 EXCEPT !.merged = <<Merged(ex, e, pos, "text", "EXACT", n0)>>],
            tight |-> "EXACT", ab |-> FALSE]
    ELSE
        IF pos > nFields(k) THEN
            [node |-> BlankNode("IXSCAN"), tight |-> "INEXACT_FETCH", ab |-> TRUE]
        ELSE
            LET t == translate(ex, e, indices[k].keyPattern[pos])
                n0 == [BlankNode("IXSCAN") EXCEPT
                          !.index = k,
                          !.multikey = indices[k].multikey,
                          !.bounds = [i \in 1..nFields(k) |->
                                         IF i = pos THEN t.oil ELSE EmptyOIL]]
            IN [node |-> [n0 EXCEPT !.merged =
                             <<Merged(ex, e, pos, "translate", t.tight, n0)>>],
                tight |-> t.tight, ab |-> FALSE]

\* shouldMergeWithLeaf without the multikey test on a bound position.
shouldMergeWithLeafAnyIndex(ex, so, e, k, pos, n, mergeType) ==
    n # NULL /\ e # NULL

\* QueryPlannerAccess::shouldMergeWithLeaf(expr, index, pos, node, mergeType);
\* n is the id of the solution node, or NULL.
shouldMergeWithLeaf(ex, so, e, k, pos, n, mergeType) ==
    IF n = NULL \/ e = NULL THEN FALSE
    ELSE IF so[n].type \in {"GEO_2D", "TEXT", "GEO_NEAR_2DSPHERE"} THEN TRUE
    ELSE IF so[n].bounds[pos].name = "" THEN TRUE
    ELSE IF mergeType = "AND" THEN ~indices[k].multikey
    ELSE TRUE

\* QueryPlannerAccess::mergeWithLeafNode.  Returns [node, tight, ab].
mergeWithLeafNode(ex, e, k, pos, node, mergeType) ==
    IF node.type = "GEO_2D" THEN
        [node |-> [node EXCEPT !.merged =
                      Append(@, Merged(ex, e, pos, "none", "INEXACT_FETCH", node))],
         tight |-> "INEXACT_FETCH", ab |-> FALSE]
    ELSE IF node.type = "TEXT" THEN
        [node |-> [node EXCEPT !.merged =
                      Append(@, Merged(ex, e, pos, "none", "INEXACT_COVERED", node))],
         tight |-> "INEXACT_COVERED", ab |-> FALSE]
    ELSE IF node.type \notin {"GEO_NEAR_2DSPHERE", "IXSCAN"}
            \/ pos > nFields(k) \/ pos > Len(node.bounds) THEN
        [node |-> node, tight |-> "INEXACT_FETCH", ab |-> TRUE]
    ELSE
        LET keyElt == indices[k].keyPattern[pos]
            oil == node.bounds[pos]
            op == IF oil.name = "" THEN "translate"
                  ELSE IF mergeType = "AND" THEN "intersect" ELSE "union"
            t == IF op = "translate" THEN translate(ex, e, keyElt)
                 ELSE IF op = "intersect" THEN translateAndIntersect(ex, e, keyElt, oil)
                 ELSE translateAndUnion(ex, e, keyElt, oil)
        IN [node |-> [node EXCEPT !.bounds[pos] = t.oil,
                                  !.merged = Append(@, Merged(ex, e, pos, op, t.tight, node))],
            tight |-> t.tight,
            ab |-> (op = "union" /\ mergeType # "OR")]

\* QueryPlannerAccess::_addFilterToSolutionNode(node, match, type).
\* Returns [ex, node].
addFilterToSolutionNode(ex, node, match, type) ==
    IF node.filter = NULL THEN
        [ex |-> ex, node |-> [node EXCEPT !.filter = match]]
    ELSE IF type = ex[node.filter].type THEN
        [ex |-> [ex EXCEPT ![node.filter].kids = Append(@, match)], node |-> node]
    ELSE
        LET \* c: oldFilter = filter->shallowClone(); then the new
            \* And/OrMatchExpression takes oldFilter and match, and
            \* node->filter.reset(listFilter) deletes the old filter.
            ListFilter(c) ==
                [ex |-> Delete(Append(c.ex,
                                      [type |-> type, path |-> "", idx |-> kNoIndex,
                                       pos |-> 0, tight |-> "EXACT", val |-> 0,
                                       kids |-> <<c.id, match>>,
                                       live |-> TRUE, orig |-> Len(c.ex) + 1]),
                               node.filter),
                 node |-> [node EXCEPT !.filter = Len(c.ex) + 1]]
        IN ListFilter(CloneInto(ex, node.filter))

\* The number of key elements before the first String-typed one.
prefixEnd(k) ==
    LET kp == indices[k].keyPattern
        strs == {i \in DOMAIN kp : IsStringKind(kp[i].kind)}
    IN IF strs = {} THEN Len(kp) ELSE MinOf(strs) - 1

\* The prefix children of the AND filter in the order they were attached.
PrefixExprsAsAttached(ex, ks, pe) ==
    LET pre == SelectSeq(ks, LAMBDA c : ex[c].pos <= pe)
    IN [i \in 1..pe |-> IF i <= Len(pre) THEN pre[i] ELSE NULL]

\* prefixExprs[ixtag->pos] = child, over the children ks of the AND filter: a
\* later child overwrites an earlier one at the same position.
PrefixExprs(ex, ks, pe) ==
    [i \in 1..pe |->
        LET at == {j \in DOMAIN ks : ex[ks[j]].pos = i}
        IN IF at = {} THEN NULL
           ELSE ks[CHOOSE j \in at : \A j2 \in at : j2 <= j]]

RECURSIVE DeleteAll(_, _, _)
\* delete prefixExprs[i] for every i from position i on
DeleteAll(ex, es, i) ==
    IF i > Len(es) THEN ex ELSE DeleteAll(Delete(ex, es[i]), es, i + 1)

\* finishTextNode, lines 335-380: the filter f is an AND with children ks.
finishTextAnd(ex, node, f, pe, ks, rest, prefixExprs) ==
    LET bad == \/ Len(ks) < pe
               \/ \E j \in DOMAIN ks : ~HasTag(ex, ks[j])
               \/ \E i \in 1..pe : prefixExprs[i] = NULL
               \/ \E i \in 1..pe : prefixExprs[i] # NULL /\ ex[prefixExprs[i]].type # "EQ"
        prefix == [i \in 1..pe |-> ex[prefixExprs[i]].val]
        Shrink(ex1) ==
            IF Len(rest) = 0 THEN
                [ex |-> Delete(ex1, f),
                 node |-> [node EXCEPT !.filter = NULL, !.prefix = prefix],
                 ab |-> FALSE]
            ELSE IF Len(rest) = 1 THEN
                [ex |-> Delete([ex1 EXCEPT ![f].kids = <<>>], f),
                 node |-> [node EXCEPT !.filter = rest[1], !.prefix = prefix],
                 ab |-> FALSE]
            ELSE
                [ex |-> ex1, node |-> [node EXCEPT !.prefix = prefix], ab |-> FALSE]
    IN IF bad THEN [ex |-> ex, node |-> node, ab |-> TRUE]
       ELSE Shrink(DeleteAll([ex EXCEPT ![f].kids = rest], prefixExprs, 1))

\* QueryPlannerAccess::finishTextNode(node, index).  Returns [ex, node, ab].
finishTextNode(ex, node, k) ==
    LET pe == prefixEnd(node.index)
        f == node.filter
    IN
    IF pe = 0 THEN [ex |-> ex, node |-> node, ab |-> FALSE]
    ELSE IF f = NULL THEN [ex |-> ex, node |-> node, ab |-> TRUE]
    ELSE IF ex[f].type # "AND" THEN
        IF pe # 1 \/ ex[f].type # "EQ" THEN [ex |-> ex, node |-> node, ab |-> TRUE]
        ELSE [ex |-> Delete(ex, f),
              node |-> [node EXCEPT !.filter = NULL, !.prefix = <<ex[f].val>>],
              ab |-> FALSE]
    ELSE finishTextAnd(ex, node, f, pe, ex[f].kids,
                       SelectSeq(ex[f].kids, LAMBDA c : ex[c].pos > pe),
                       PrefixExprs(ex, ex[f].kids, pe))

\* finishBounds without the all-values lists for the unbound positions.
finishBoundsNoFill(ex, node, kp, b) ==
    LET Aligned(al) == [ex |-> ex, node |-> [node EXCEPT !.bounds = al.bounds],
                        ab |-> al.ab]
    IN IF Len(kp) # Len(b) THEN [ex |-> ex, node |-> node, ab |-> TRUE]
       ELSE Aligned(alignBounds(b, kp))

\* finishLeafNode, lines 415-456: bounds b of an index scan over key pattern kp.
finishBounds(ex, node, kp, b) ==
    LET empties == {i \in DOMAIN b : b[i].name = ""}
        firstEmptyField == IF empties = {} THEN Len(b) + 1 ELSE MinOf(empties)
        filled == [i \in DOMAIN b |->
                      IF i >= firstEmptyField /\ b[i].name = ""
                      THEN allValuesForField(kp[i]) ELSE b[i]]
        Aligned(al) == [ex |-> ex, node |-> [node EXCEPT !.bounds = al.bounds],
                        ab |-> al.ab]
    IN \* the key pattern must not end before the bounds do
       IF Len(kp) # Len(b) THEN [ex |-> ex, node |-> node, ab |-> TRUE]
       ELSE Aligned(alignBounds(filled, kp))

\* QueryPlannerAccess::finishLeafNode(node, index).  Returns [ex, node, ab].
finishLeafNode(ex, node0, k) ==
    LET Finish(node) ==
            IF node.type = "GEO_2D" THEN [ex |-> ex, node |-> node, ab |-> FALSE]
            ELSE IF node.type = "TEXT" THEN finishTextNode(ex, node, k)
            ELSE IF node.type \notin {"GEO_NEAR_2DSPHERE", "IXSCAN"} THEN
                [ex |-> ex, node |-> node, ab |-> TRUE]
            ELSE finishBounds(ex, node, indices[k].keyPattern, node.bounds)
    IN Finish([node0 EXCEPT !.finished = @ + 1])

RECURSIVE findElemMatchChildren(_, _)
\* QueryPlannerAccess::findElemMatchChildren(node, out): the tagged predicates
\* below node, through AND and ELEM_MATCH_OBJECT nodes, in order.
findElemMatchChildren(ex, node) ==
    LET Visit(found, child) ==
            IF nodeCanUseIndexOnOwnField(ex, child) /\ HasTag(ex, child)
            THEN Append(found, child)
            ELSE IF ex[child].type \in {"AND", "ELEM_MATCH_OBJECT"}
            THEN found \o findElemMatchChildren(ex, child)
            ELSE found
        F[i \in 0..numChildren(ex, node)] ==
            IF i = 0 THEN <<>> ELSE Visit(F[i - 1], getChild(ex, node, i))
    IN F[numChildren(ex, node)]

(***************************************************************************)
(* Node properties computed by QuerySolutionNode (query_solution.cpp).     *)
(***************************************************************************)
RECURSIVE sortedByDiskLoc(_, _)
sortedByDiskLoc(so, n) ==
    CASE so[n].type = "IXSCAN" ->
             \A i \in DOMAIN so[n].bounds : Cardinality(so[n].bounds[i].intervals) = 1
      [] so[n].type = "FETCH" -> sortedByDiskLoc(so, so[n].kids[1])
      [] so[n].type = "AND_SORTED" -> TRUE
      [] OTHER -> FALSE

RECURSIVE getSort(_, _)
\* The sort orders a node provides; a sort order is named by the catalog
\* number of the index whose key pattern it is.
getSort(so, n) ==
    CASE so[n].type = "IXSCAN" -> {so[n].index}
      [] so[n].type = "FETCH" -> getSort(so, so[n].kids[1])
      [] so[n].type = "AND_HASH" /\ so[n].kids # <<>> -> getSort(so, Last(so[n].kids))
      [] so[n].type = "MERGE_SORT" -> {so[n].sort}
      [] OTHER -> {}

(***************************************************************************)
(* processIndexScans.  Its locals and the heaps travel in a record         *)
(*   m = [ex, so, out, cur, curIdx, curChild, ab]                          *)
(* out = *out, cur = currentScan (NULL: none), curIdx = currentIndexNumber,*)
(* ab = a verify()/invariant() failed.                                     *)
(***************************************************************************)
\* finishLeafNode(currentScan.get(), indices[currentIndexNumber])
FinishCurrent(m) ==
    LET Store(r) == [m EXCEPT !.ex = r.ex, !.so[m.cur] = r.node, !.ab = @ \/ r.ab]
    IN Store(finishLeafNode(m.ex, m.so[m.cur], m.curIdx))

\* The in-flight leaf pushed as it is, finishLeafNode left out.
FlushCurrentUnfinished(m) ==
    IF m.cur # NULL THEN [m EXCEPT !.out = Append(@, m.cur), !.cur = NULL] ELSE m

\* Lines 781-785:
\* if (NULL != currentScan.get()) { finishLeafNode(...); out->push_back(currentScan.release()); }
FlushCurrent(m) ==
    LET Push(m1) == [m1 EXCEPT !.out = Append(@, m.cur), !.cur = NULL]
    IN IF m.cur # NULL THEN Push(FinishCurrent(m)) ELSE m

\* The same before a new leaf is made, with
\* else { verify(IndexTag::kNoIndex == currentIndexNumber); }
EmitCurrent(m) ==
    IF m.cur # NULL THEN FlushCurrent(m)
    ELSE [m EXCEPT !.ab = @ \/ (m.curIdx # kNoIndex)]

\* mergeDecision with the in-scan filter attached on any index.
mergeDecisionAnyIndex(tight, rootType, k, inArr) ==
    IF tight = "EXACT" THEN "delete"
    ELSE IF tight = "INEXACT_COVERED" THEN "filter"
    ELSE IF rootType = "OR" THEN "fetch"
    ELSE "keep"

\* The if-chain after mergeWithLeafNode (lines 663-710).
mergeDecision(tight, rootType, k, inArr) ==
    IF tight = "EXACT" THEN "delete"
    ELSE IF tight = "INEXACT_COVERED"
            /\ (indices[k].type = "text" \/ ~indices[k].multikey) THEN "filter"
    ELSE IF rootType = "OR" THEN "fetch"
    ELSE "keep"

\* newLeafDecision with a covered predicate dropped like an exact one.
newLeafDecisionCoveredAsExact(tight, rootType, k, inArr) ==
    IF tight \in {"EXACT", "INEXACT_COVERED"} /\ ~inArr THEN "delete"
    ELSE IF rootType = "OR" THEN "fetch"
    ELSE "keep"

\* newLeafDecision without the Fetch over an inexact branch of an OR.
newLeafDecisionNoFetch(tight, rootType, k, inArr) ==
    IF tight = "EXACT" /\ ~inArr THEN "delete"
    ELSE IF tight = "INEXACT_COVERED" /\ ~indices[k].multikey THEN "filter"
    ELSE "keep"

\* newLeafDecision with the predicate of an exact leaf left under the root.
newLeafDecisionKeepExact(tight, rootType, k, inArr) ==
    IF tight = "EXACT" THEN "keep"
    ELSE IF tight = "INEXACT_COVERED" /\ ~indices[k].multikey THEN "filter"
    ELSE IF rootType = "OR" THEN "fetch"
    ELSE "keep"

\* The if-chain after makeLeafNode (lines 727-777).
newLeafDecision(tight, rootType, k, inArr) ==
    IF tight = "EXACT" /\ ~inArr THEN "delete"
    ELSE IF tight = "INEXACT_COVERED" /\ ~indices[k].multikey THEN "filter"
    ELSE IF rootType = "OR" THEN "fetch"
    ELSE "keep"

\* _addFilterToSolutionNode(currentScan.get(), match, type)
AffixFilter(m, match, type) ==
    LET Store(r) == [m EXCEPT !.ex = r.ex, !.so[m.cur] = r.node]
    IN Store(addFilterToSolutionNode(m.ex, m.so[m.cur], match, type))

\* The Fetch made over the in-flight leaf as it is, finishLeafNode left out.
FetchOverCurrentUnfinished(m, child) ==
    [m EXCEPT !.so = Append(@, [BlankNode("FETCH") EXCEPT
                                   !.filter = child, !.kids = <<m.cur>>]),
              !.out = Append(@, Len(m.so) + 1),
              !.cur = NULL,
              !.curIdx = kNoIndex]

\* The scan is finished and goes into *out under a FetchNode that owns child.
FetchOverCurrent(m, child) ==
    LET Wrap(m1) ==
            [m1 EXCEPT !.so = Append(@, [BlankNode("FETCH") EXCEPT
                                            !.filter = child, !.kids = <<m.cur>>]),
                       !.out = Append(@, Len(m1.so) + 1),
                       !.cur = NULL,
                       !.curIdx = kNoIndex]
    IN Wrap(FinishCurrent(m))

\* The bodies of the if-chain, for child `child' at root's position m.curChild.
ApplyDecision(m, root, child, d) ==
    CASE d = "delete" ->
             [m EXCEPT !.ex = Delete(EraseChild(m.ex, root, m.curChild), child)]
      [] d = "filter" ->
             AffixFilter([m EXCEPT !.ex = EraseChild(m.ex, root, m.curChild)],
                         child, m.ex[root].type)
      [] d = "fetch" ->
             \* finishLeafNode runs before the child is erased from root
             LET Erase(m1) == [m1 EXCEPT !.ex = EraseChild(m1.ex, root, m.curChild)]
             IN Erase(FetchOverCurrent(m, child))
      [] OTHER -> [m EXCEPT !.curChild = @ + 1]

\* The current scan can take predicate e at position pos of index k.
CanMerge(m, e, k, pos, mergeType) ==
    /\ m.cur # NULL
    /\ m.curIdx = k
    /\ shouldMergeWithLeaf(m.ex, m.so, e, m.curIdx, pos, m.cur, mergeType)

\* mergeWithLeafNode(e, indices[currentIndexNumber], pos, &tightness,
\*                   currentScan.get(), root->matchType()): [m, tight]
MergeIntoCurrent(m, e, pos, mergeType) ==
    LET Store(r) == [m |-> [m EXCEPT !.so[m.cur] = r.node, !.ab = @ \/ r.ab],
                     tight |-> r.tight]
    IN Store(mergeWithLeafNode(m.ex, e, m.curIdx, pos, m.so[m.cur], mergeType))

\* currentIndexNumber = k; currentScan.reset(makeLeafNode(query, indices[k],
\* pos, e, &tightness)), after the scan before it was emitted: [m, tight]
StartLeaf(m, e, k, pos) ==
    LET Store(m1, r) == [m |-> [m1 EXCEPT !.curIdx = k,
                                          !.so = Append(@, r.node),
                                          !.cur = Len(m1.so) + 1,
                                          !.ab = @ \/ r.ab],
                         tight |-> r.tight]
        Make(m1) == Store(m1, makeLeafNode(m1.ex, k, pos, e))
    IN Make(EmitCurrent(m))

\* Lines 652-778: a bounds-generating child with tag (k, pos).
ScanLeaf(m, root, child, k, pos, inArr) ==
    LET rootType == m.ex[root].type
        Merged1(r) == ApplyDecision(r.m, root, child,
                                    mergeDecision(r.tight, rootType, m.curIdx, inArr))
        Started(r) == ApplyDecision(r.m, root, child,
                                    newLeafDecision(r.tight, rootType, k, inArr))
    IN IF CanMerge(m, child, k, pos, rootType)
       THEN Merged1(MergeIntoCurrent(m, child, pos, rootType))
       ELSE Started(StartLeaf(m, child, k, pos))

\* Lines 561-589: one predicate emChild found inside an $elemMatch child whose
\* own tag names index k; the $elemMatch stays a child of root.
ScanElemMatchChild(m, root, k, emChild) ==
    LET pos == m.ex[emChild].pos
        rootType == m.ex[root].type
        Covered(r, kk) ==
            IF r.tight = "INEXACT_COVERED" /\ ~indices[kk].multikey
            THEN AffixFilter(r.m, emChild, rootType)
            ELSE r.m
    IN IF CanMerge(m, emChild, k, pos, rootType)
       THEN Covered(MergeIntoCurrent(m, emChild, pos, rootType), m.curIdx)
       ELSE Covered(StartLeaf(m, emChild, k, pos), k)

RECURSIVE ScanElemMatch(_, _, _, _, _)
\* Lines 541-592: the loop over emChildren[i..].
ScanElemMatch(m, root, k, emChildren, i) ==
    IF i > Len(emChildren) \/ m.ab THEN m
    ELSE ScanElemMatch(ScanElemMatchChild(m, root, k, emChildren[i]),
                       root, k, emChildren, i + 1)

(***************************************************************************)
(* The call stack.  A frame is one call of buildIndexedDataAccess, which   *)
(* becomes buildIndexedAnd / buildIndexedOr (fn "and"/"or") or the $all /  *)
(* $elemMatch branch (fn "all"/"em").  autoRoot: the frame's auto_ptr      *)
(* holds root.  For fn "all", out is ahn->children and curChild is i.      *)
(***************************************************************************)
NewFrame(root, inArr) ==
    [fn |-> "bida", root |-> root, inArr |-> inArr, autoRoot |-> FALSE,
     pc |-> "start", out |-> <<>>, cur |-> NULL, curIdx |-> kNoIndex,
     curChild |-> 1]

Top == stack[Len(stack)]

Running == status = "running" /\ stack # <<>>

Locals(f) ==
    [ex |-> exprs, so |-> solns, out |-> f.out, cur |-> f.cur,
     curIdx |-> f.curIdx, curChild |-> f.curChild, ab |-> FALSE]

\* A verify() or invariant() failed.
Abort ==
    /\ status' = "aborted"
    /\ UNCHANGED <<exprs, solns, stack, ret, result, query, input>>

\* The top frame returns v, leaving the heaps ex and so.
Return(v, ex, so) ==
    /\ exprs' = ex
    /\ solns' = so
    /\ IF Len(stack) = 1
       THEN /\ status' = "done"
            /\ result' = v
            /\ ret' = NoRet
       ELSE /\ ret' = <<v>>
            /\ UNCHANGED <<status, result>>
    /\ stack' = SubSeq(stack, 1, Len(stack) - 1)
    /\ UNCHANGED <<query, input>>

\* The top frame goes on with the locals of m.
Continue(m, pc) ==
    IF m.ab THEN Abort
    ELSE /\ exprs' = m.ex
         /\ solns' = m.so
         /\ stack' = [stack EXCEPT ![Len(stack)] =
                         [@ EXCEPT !.out = m.out, !.cur = m.cur, !.curIdx = m.curIdx,
                                   !.curChild = m.curChild, !.pc = pc]]
         /\ UNCHANGED <<ret, status, result, query, input>>

\* The top frame (changed to g) calls buildIndexedDataAccess(child, inArr).
Call(g, child, inArr, ex) ==
    /\ exprs' = ex
    /\ stack' = Append([stack EXCEPT ![Len(stack)] = g], NewFrame(child, inArr))
    /\ ret' = NoRet
    /\ UNCHANGED <<solns, status, result, query, input>>

\* ~auto_ptr<MatchExpression>: deletes root if the frame still holds it.
DropAutoRoot(ex, root, auto) == IF auto THEN Delete(ex, root) ELSE ex

\* ~auto_ptr<QuerySolutionNode> for currentScan: deletes the leaf and its filter.
DropCurrentScan(m) ==
    IF m.cur = NULL THEN m
    ELSE [m EXCEPT !.so[m.cur].live = FALSE,
                   !.ex = IF m.so[m.cur].filter = NULL THEN @
                          ELSE Delete(@, m.so[m.cur].filter)]

\* Returning soln itself, with no FetchNode over it.
ReturnBare(ex, so, filter, soln) == Return(soln, ex, so)

\* FetchNode* fetch = new FetchNode(); fetch->filter.reset(filter);
\* fetch->children.push_back(soln); return fetch;
ReturnFetch(ex, so, filter, soln) ==
    Return(Len(so) + 1, ex,
           Append(so, [BlankNode("FETCH") EXCEPT !.filter = filter, !.kids = <<soln>>]))

\* The leaf of a tagged predicate, the index's multikey flag left out of the
\* covered case.
BuildLeafCoveredOnMultikey(f) ==
    LET root == f.root
        k == exprs[root].idx
        soln == Len(solns) + 1
        Finished(r, fin) ==
            IF r.ab \/ fin.ab THEN Abort
            ELSE IF f.inArr THEN Return(soln, fin.ex, Append(solns, fin.node))
            ELSE IF r.tight = "EXACT" THEN
                Return(soln, Delete(fin.ex, root), Append(solns, fin.node))
            ELSE IF r.tight = "INEXACT_COVERED" THEN
                IF fin.node.filter # NULL THEN Abort
                ELSE Return(soln, fin.ex,
                            Append(solns, [fin.node EXCEPT !.filter = root]))
            ELSE ReturnFetch(fin.ex, Append(solns, fin.node), root, soln)
        Made(r) == Finished(r, finishLeafNode(exprs, r.node, k))
    IN Made(makeLeafNode(exprs, k, exprs[root].pos, root))

\* Lines 1005-1042: the tagged bounds-generating root.
BuildLeaf(f) ==
    LET root == f.root
        k == exprs[root].idx
        soln == Len(solns) + 1
        Finished(r, fin) ==
            IF r.ab \/ fin.ab THEN Abort
            ELSE IF f.inArr THEN Return(soln, fin.ex, Append(solns, fin.node))
            ELSE IF r.tight = "EXACT" THEN
                Return(soln, Delete(fin.ex, root), Append(solns, fin.node))
            ELSE IF r.tight = "INEXACT_COVERED" /\ ~indices[k].multikey THEN
                IF fin.node.filter # NULL THEN Abort
                ELSE Return(soln, fin.ex,
                            Append(solns, [fin.node EXCEPT !.filter = root]))
            ELSE ReturnFetch(fin.ex, Append(solns, fin.node), root, soln)
        Made(r) == Finished(r, finishLeafNode(exprs, r.node, k))
    IN Made(makeLeafNode(exprs, k, exprs[root].pos, root))

\* QueryPlannerAccess::buildIndexedDataAccess: the dispatch on root.
buildIndexedDataAccess ==
    /\ Running
    /\ ret = NoRet
    /\ Top.pc = "start"
    /\ LET f == Top
           root == f.root
           auto == ~f.inArr
       IN
       IF isLogical(exprs, root) /\ ~isBoundsGeneratingNot(exprs, root) THEN
           IF exprs[root].type \in {"AND", "OR"} THEN
               \* buildIndexedAnd / buildIndexedOr: autoRoot.reset(root) unless in an array operator
               /\ stack' = [stack EXCEPT ![Len(stack)] =
                               [f EXCEPT !.fn = IF exprs[root].type = "AND" THEN "and" ELSE "or",
                                         !.pc = "scan",
                                         !.autoRoot = auto]]
               /\ UNCHANGED <<exprs, solns, ret, status, result, query, input>>
           ELSE Return(NULL, exprs, solns)
       ELSE IF ~HasTag(exprs, root) THEN
           Return(NULL, DropAutoRoot(exprs, root, auto), solns)
       ELSE IF isBoundsGenerating(exprs, root) THEN BuildLeaf(f)
       ELSE IF arrayUsesIndexOnChildren(exprs, root) THEN
           IF exprs[root].type = "ALL" THEN
               IF numChildren(exprs, root) = 0
               THEN Return(NULL, DropAutoRoot(exprs, root, auto), solns)
               ELSE Call([f EXCEPT !.fn = "all", !.pc = "wait", !.autoRoot = auto],
                         getChild(exprs, root, 1), TRUE, exprs)
           ELSE IF numChildren(exprs, root) # 1 THEN Abort
           ELSE Call([f EXCEPT !.fn = "em", !.pc = "wait", !.autoRoot = auto],
                     getChild(exprs, root, 1), TRUE, exprs)
       ELSE Return(NULL, DropAutoRoot(exprs, root, auto), solns)

\* The loop of processIndexScans has a child to look at.
ScanContinues(f) ==
    /\ f.curChild <= numChildren(exprs, f.root)
    /\ HasTag(exprs, getChild(exprs, f.root, f.curChild))

\* QueryPlannerAccess::processIndexScans: one iteration of the while loop.
processIndexScans ==
    /\ Running
    /\ ret = NoRet
    /\ Top.fn \in {"and", "or"}
    /\ Top.pc = "scan"
    /\ ScanContinues(Top)
    /\ LET f == Top
           root == f.root
           child == getChild(exprs, root, f.curChild)
           tagNode == IF exprs[child].type = "NOT" THEN getChild(exprs, child, 1)
                      ELSE child
           Skip(m1) == Continue([m1 EXCEPT !.curChild = @ + 1], "scan")
       IN
       IF ~isBoundsGenerating(exprs, child) THEN
           IF exprs[root].type = "AND" /\ exprs[child].type = "ELEM_MATCH_OBJECT" THEN
               Skip(ScanElemMatch(Locals(f), root, exprs[child].idx,
                                  findElemMatchChildren(exprs, child), 1))
           ELSE IF ~f.inArr THEN
               Call([f EXCEPT !.pc = "wait"], child, f.inArr,
                    EraseChild(exprs, root, f.curChild))
           ELSE
               Call([f EXCEPT !.pc = "wait", !.curChild = @ + 1], child, f.inArr, exprs)
       ELSE IF ~HasTag(exprs, tagNode) THEN Abort
       ELSE Continue(ScanLeaf(Locals(f), root, child, exprs[tagNode].idx,
                              exprs[tagNode].pos, f.inArr), "scan")

\* processIndexScans, lines 614-620: the recursive call has returned.
processIndexScansResume ==
    /\ Running
    /\ ret # NoRet
    /\ Top.fn \in {"and", "or"}
    /\ Top.pc = "wait"
    /\ LET f == Top
           \* return false; the caller returns NULL and its auto_ptrs run
           Fail(m) == Return(NULL, DropAutoRoot(m.ex, f.root, f.autoRoot), m.so)
       IN IF ret[1] = NULL THEN Fail(DropCurrentScan(Locals(f)))
          ELSE
              /\ stack' = [stack EXCEPT ![Len(stack)] =
                              [f EXCEPT !.out = Append(@, ret[1]), !.pc = "scan"]]
              /\ ret' = NoRet
              /\ UNCHANGED <<exprs, solns, status, result, query, input>>

\* The children of the AndHashNode left in the order they were collected.
KeepCollectedOrder(so, kids, sort) == kids

\* Lines 839-849: the first child that provides the requested sort goes last.
PutSortProviderLast(so, kids, sort) ==
    LET prov == {i \in DOMAIN kids : sort \in getSort(so, kids[i])}
        Swap(i) == [j \in DOMAIN kids |->
                       IF j = i THEN kids[Len(kids)]
                       ELSE IF j = Len(kids) THEN kids[i]
                       ELSE kids[j]]
    IN IF prov = {} THEN kids ELSE Swap(MinOf(prov))

\* Lines 809-850: the node over the scans `out' of an AND: [so, id].
AndOver(so, out, sort) ==
    IF Len(out) = 1 THEN [so |-> so, id |-> out[1]]
    ELSE IF \A i \in DOMAIN out : sortedByDiskLoc(so, out[i])
    THEN [so |-> Append(so, [BlankNode("AND_SORTED") EXCEPT !.kids = out]),
          id |-> Len(so) + 1]
    ELSE [so |-> Append(so, [BlankNode("AND_HASH") EXCEPT
                                !.kids = PutSortProviderLast(so, out, sort)]),
          id |-> Len(so) + 1]

\* QueryPlannerAccess::buildIndexedAnd, after the loop of processIndexScans.
buildIndexedAnd ==
    /\ Running
    /\ ret = NoRet
    /\ Top.fn = "and"
    /\ Top.pc = "scan"
    /\ ~ScanContinues(Top)
    /\ LET f == Top
           root == f.root
           Built(m, a) ==
               IF f.inArr THEN Return(a.id, m.ex, a.so)
               ELSE IF numChildren(m.ex, root) > 0 THEN
                   IF numChildren(m.ex, root) = 1 THEN
                       \* An $and of one thing is that thing; autoRoot deletes
                       \* the emptied $and.
                       ReturnFetch(Delete([m.ex EXCEPT ![root].kids = <<>>], root),
                                   a.so, getChild(m.ex, root, 1), a.id)
                   ELSE ReturnFetch(m.ex, a.so, root, a.id)
               ELSE Return(a.id, DropAutoRoot(m.ex, root, f.autoRoot), a.so)
           Scanned(m) ==
               IF m.ab \/ Len(m.out) < 1 THEN Abort    \* verify(ixscanNodes.size() >= 1)
               ELSE Built(m, AndOver(m.so, m.out, query.sort))
       IN Scanned(FlushCurrent(Locals(f)))

\* The children left as they were collected, Text nodes not moved.
TextWhereCollected(so, kids) == kids

\* The partition the other way round: Text nodes moved to the end.
TextLast(so, kids) ==
    SelectSeq(kids, LAMBDA n : so[n].type # "TEXT")
        \o SelectSeq(kids, LAMBDA n : so[n].type = "TEXT")

\* std::stable_partition(children.begin(), children.end(), isTextNode)
TextFirst(so, kids) ==
    SelectSeq(kids, LAMBDA n : so[n].type = "TEXT")
        \o SelectSeq(kids, LAMBDA n : so[n].type # "TEXT")

\* shouldMergeSort decided by the first child alone.
shouldMergeSortFirstOnly(so, out, sort) ==
    /\ sort # 0
    /\ out # <<>>
    /\ sort \in getSort(so, out[1])

\* Lines 919-948: the sort orders shared by all children hold the requested sort.
shouldMergeSort(so, out, sort) ==
    /\ sort # 0
    /\ \A i \in DOMAIN out : sort \in getSort(so, out[i])

\* The MergeSortNode or OrNode made over an empty ixscanNodes.
OrOfNothing(so, kind, sort) ==
    [so |-> Append(so, [BlankNode(kind) EXCEPT !.sort = sort]), id |-> Len(so) + 1]

\* Lines 912-969: the node over the scans `out' of an OR, its children
\* partitioned: [so, id].
OrOver(so, out, sort) ==
    LET Partition(a) == [a EXCEPT !.so[a.id].kids = TextFirst(a.so, @)]
    IN Partition(
        IF Len(out) = 1 THEN [so |-> so, id |-> out[1]]
        ELSE IF shouldMergeSort(so, out, sort)
        THEN [so |-> Append(so, [BlankNode("MERGE_SORT") EXCEPT
                                    !.sort = sort, !.kids = out]),
              id |-> Len(so) + 1]
        ELSE [so |-> Append(so, [BlankNode("OR") EXCEPT !.kids = out]),
              id |-> Len(so) + 1])

\* QueryPlannerAccess::buildIndexedOr, after the loop of processIndexScans.
buildIndexedOr ==
    /\ Running
    /\ ret = NoRet
    /\ Top.fn = "or"
    /\ Top.pc = "scan"
    /\ ~ScanContinues(Top)
    /\ LET f == Top
           root == f.root
           Built(m, o) == Return(o.id, DropAutoRoot(m.ex, root, f.autoRoot), o.so)
           Scanned(m) ==
               IF m.ab THEN Abort
               ELSE IF ~f.inArr /\ numChildren(m.ex, root) # 0 THEN
                   \* "planner OR error, non-indexed child of OR."
                   Return(NULL, DropAutoRoot(m.ex, root, f.autoRoot), m.so)
               ELSE IF Len(m.out) = 0 /\ query.sort # 0 THEN
                   \* ixscanNodes[0] of an empty vector is undefined: the read
                   \* faults, or yields sort orders that hold the wanted sort
                   \* or do not.
                   \/ Abort
                   \/ Built(m, OrOfNothing(m.so, "MERGE_SORT", query.sort))
                   \/ Built(m, OrOfNothing(m.so, "OR", 0))
               ELSE Built(m, OrOver(m.so, m.out, query.sort))
       IN Scanned(FlushCurrent(Locals(f)))

\* Lines 1082-1090: the end of the array-operator branch.
FinishArrayOperator(f, ex, so, solution) ==
    IF f.inArr THEN Return(solution, ex, so)
    ELSE ReturnFetch(ex, so, f.root, solution)

\* The return of a sub-clause's plan to its array operator, an intersection
\* of one child left as it is.
arrayOperatorResumeNoCollapse ==
    /\ Running
    /\ ret # NoRet
    /\ Top.fn \in {"all", "em"}
    /\ Top.pc = "wait"
    /\ LET f == Top
           root == f.root
           out == IF ret[1] # NULL THEN Append(f.out, ret[1]) ELSE f.out
       IN
       IF f.fn = "em" THEN
           IF ret[1] = NULL
           THEN Return(NULL, DropAutoRoot(exprs, root, f.autoRoot), solns)
           ELSE FinishArrayOperator(f, exprs, solns, ret[1])
       ELSE IF f.curChild < numChildren(exprs, root) THEN
           Call([f EXCEPT !.out = out, !.curChild = @ + 1],
                getChild(exprs, root, f.curChild + 1), TRUE, exprs)
       ELSE IF Len(out) = 0
       THEN Return(NULL, DropAutoRoot(exprs, root, f.autoRoot), solns)
       ELSE FinishArrayOperator(f, exprs,
                                Append(solns, [BlankNode("AND_HASH") EXCEPT !.kids = out]),
                                Len(solns) + 1)

\* buildIndexedDataAccess, lines 1046-1091: a recursive call made for a child
\* of $all or $elemMatch has returned.
arrayOperatorResume ==
    /\ Running
    /\ ret # NoRet
    /\ Top.fn \in {"all", "em"}
    /\ Top.pc = "wait"
    /\ LET f == Top
           root == f.root
           out == IF ret[1] # NULL THEN Append(f.out, ret[1]) ELSE f.out
       IN
       IF f.fn = "em" THEN
           IF ret[1] = NULL
           THEN Return(NULL, DropAutoRoot(exprs, root, f.autoRoot), solns)
           ELSE FinishArrayOperator(f, exprs, solns, ret[1])
       ELSE IF f.curChild < numChildren(exprs, root) THEN
           Call([f EXCEPT !.out = out, !.curChild = @ + 1],
                getChild(exprs, root, f.curChild + 1), TRUE, exprs)
       ELSE IF Len(out) = 0
       THEN Return(NULL, DropAutoRoot(exprs, root, f.autoRoot), solns)
       ELSE IF Len(out) = 1 THEN FinishArrayOperator(f, exprs, solns, out[1])
       ELSE FinishArrayOperator(f, exprs,
                                Append(solns, [BlankNode("AND_HASH") EXCEPT !.kids = out]),
                                Len(solns) + 1)

(***************************************************************************)
(* The inputs: predicate trees as the plan enumerator leaves them.         *)
(***************************************************************************)
Leaf(t, k, pos, tight, v) ==
    [type |-> t, path |-> IF k = kNoIndex THEN "a" ELSE indices[k].keyPattern[pos].field,
     idx |-> k, pos |-> pos, tight |-> tight, val |-> v, kids |-> <<>>]

\* tagForSort: a node that cannot use an index on its own field carries the
\* smallest index number among its children's tags, at the first position.
Node(t, kids) ==
    LET tags == {kids[i].idx : i \in DOMAIN kids} \ {kNoIndex}
    IN [type |-> t, path |-> "", idx |-> IF tags = {} THEN kNoIndex ELSE MinOf(tags),
        pos |-> 1, tight |-> "EXACT", val |-> 0, kids |-> kids]

\* The negation of predicate d: it is tagged like d, and the bounds builder
\* gives it a verdict of its own.
Not(d, tight) ==
    [type |-> "NOT", path |-> d.path, idx |-> d.idx, pos |-> d.pos, tight |-> tight,
     val |-> d.val, kids |-> <<d>>]

\* The rank of a node's type in the enumerator's order of the children that
\* share an index: GEO_NEAR first, then TEXT, then by position.
TypeRank(d) == IF d.type = "GEO_NEAR" THEN 0 ELSE IF d.type = "TEXT" THEN 1 ELSE 2

\* d1 may come before d2 among the children of one node.
TagOrdered(d1, d2) ==
    IF d2.idx = kNoIndex THEN TRUE
    ELSE IF d1.idx = kNoIndex THEN FALSE
    ELSE IF d1.idx # d2.idx THEN d1.idx < d2.idx
    ELSE IF TypeRank(d1) # TypeRank(d2) THEN TypeRank(d1) < TypeRank(d2)
    ELSE d1.pos <= d2.pos

SortedKids(ds) == \A i \in 1..(Len(ds) - 1) : TagOrdered(ds[i], ds[i + 1])

RECURSIVE AddTree(_, _)
\* The heap h with the tree of descriptor d added: [h, id].
AddTree(h, d) ==
    LET Add(prev, c) == [h |-> c.h, ids |-> Append(prev.ids, c.id)]
        Step(prev, kid) == Add(prev, AddTree(prev.h, kid))
        F[i \in 0..Len(d.kids)] ==
            IF i = 0 THEN [h |-> h, ids |-> <<>>]
            ELSE Step(F[i - 1], d.kids[i])
        Finish(done) ==
            [h |-> Append(done.h, [type |-> d.type, path |-> d.path, idx |-> d.idx,
                                   pos |-> d.pos, tight |-> d.tight, val |-> d.val,
                                   kids |-> done.ids, live |-> TRUE,
                                   orig |-> Len(done.h) + 1]),
             id |-> Len(done.h) + 1]
    IN Finish(F[Len(d.kids)])

\* The tagged leaves over the B-tree indexes, and the untagged leaf.
BtreeTags == {<<IxBtree, 1>>, <<IxBtree, 2>>, <<IxMulti, 1>>, <<IxMulti, 2>>}

Untagged == Leaf("EQ", kNoIndex, 0, "EXACT", 1)

BtreeLeaves ==
    {Leaf("EQ", t[1], t[2], g, v) : t \in BtreeTags, g \in Tightness, v \in Values}
        \cup {Untagged}

\* The leaves used below the root's children.
CoreLeaves ==
    {Leaf("EQ", t[1], t[2], g, 1) :
        t \in {<<IxBtree, 1>>, <<IxBtree, 2>>, <<IxMulti, 1>>}, g \in Tightness}
        \cup {Untagged}

SortedSeqs(S, lo, hi) == {s \in SeqsUpTo(S, hi) : Len(s) >= lo /\ SortedKids(s)}

InitWith(trees, inArrs, sorts) ==
    /\ \E d \in trees, ia \in inArrs, s \in sorts :
          \E t \in {AddTree(<<>>, d)} :
             /\ exprs = t.h
             /\ input = [root |-> t.id, inArr |-> ia, exprs0 |-> t.h]
             /\ stack = <<NewFrame(t.id, ia)>>
             /\ query = [sort |-> s]
    /\ solns = <<>>
    /\ ret = NoRet
    /\ status = "running"
    /\ result = NULL

\* An AND or OR over leaves.
FlatTrees ==
    {Node(t, ks) : t \in {"AND", "OR"}, ks \in SortedSeqs(BtreeLeaves, 1, MaxChildren)}

\* A logical node over leaves, as a child.
Logicals ==
    {Node(t, ks) : t \in {"AND", "OR", "NOR"}, ks \in SortedSeqs(CoreLeaves, 2, MaxGrand)}

\* $elemMatch (object) has one child: a predicate or an AND / OR of predicates.
ElemMatches ==
    {Node("ELEM_MATCH_OBJECT", <<x>>) :
        x \in CoreLeaves \cup {l \in Logicals : l.type # "NOR"}}

\* $all over $elemMatch children.
Alls ==
    {Node("ALL", ks) :
        ks \in SortedSeqs({Node("ELEM_MATCH_OBJECT", <<x>>) : x \in CoreLeaves},
                          1, MaxGrand)}

\* A negated predicate.
Nots == {Not(x, x.tight) : x \in CoreLeaves}

Nested == Logicals \cup ElemMatches \cup Alls \cup Nots

\* An AND or OR with one nested child, and the nested nodes as roots.
NestedTrees ==
    {Node(t, ks) : t \in {"AND", "OR"},
                   ks \in {s \in SortedSeqs(Nested \cup CoreLeaves, 1, MaxChildren) :
                              Cardinality({i \in DOMAIN s : s[i] \in Nested}) = 1}}
        \cup Nested

\* The positions of a text index that take equality predicates: those before
\* the text sentinel and those after the _ftsx element.
TextEqPositions(k) ==
    {i \in 1..nFields(k) : indices[k].keyPattern[i].field \notin {"_fts", "_ftsx"}}

TextPosition(k) ==
    CHOOSE i \in 1..nFields(k) : indices[k].keyPattern[i].field = "_fts"

\* Equality predicates over distinct positions of text index k, in any order.
TextEqSeqs(k) ==
    UNION {{[i \in DOMAIN ps |-> Leaf("EQ", k, ps[i], "EXACT", vs[i])] :
               vs \in [DOMAIN ps -> Values]} :
           ps \in {q \in SeqsUpTo(TextEqPositions(k), Cardinality(TextEqPositions(k))) :
                      \A i, j \in DOMAIN q : i # j => q[i] # q[j]}}

\* An AND of a $text predicate, equalities on the fields of its index, and
\* possibly a predicate that uses no index.
TextTrees ==
    {Node("AND", <<Leaf("TEXT", k, TextPosition(k), "EXACT", 1)>> \o eqs \o rest) :
        k \in {IxText, IxText1},
        eqs \in TextEqSeqs(IxText) \cup TextEqSeqs(IxText1),
        rest \in {<<>>, <<Untagged>>}}

\* An AND of a geo predicate ($near on the 2dsphere index, or $within on the
\* 2d index), possibly a predicate on the second field of its index, and
\* possibly a predicate that uses no index.
GeoTrees ==
    {Node("AND", <<g>> \o xs \o rest) :
        g \in {Leaf("GEO_NEAR", IxSphere, 1, "EXACT", 1), Leaf("GEO", Ix2d, 1, "EXACT", 1)},
        xs \in {<<>>} \cup {<<Leaf("EQ", k, 2, t, v)>> :
                                k \in {IxSphere, Ix2d}, t \in Tightness, v \in Values},
        rest \in {<<>>, <<Untagged>>}}

\* An AND whose children bound every field of both B-tree indexes, so that
\* each of its two scans can come out as a single point.
PointTrees ==
    {Node("AND", <<Leaf("EQ", IxBtree, 1, "EXACT", 1), Leaf("EQ", IxBtree, 2, "EXACT", 1),
                   Leaf("EQ", IxMulti, 1, "EXACT", 1), Leaf("EQ", IxMulti, 2, t, 1)>>) :
        t \in Tightness}

\* An OR of up to two B-tree predicates and an AND that a Text leaf answers,
\* alone or together with a B-tree scan.
TextOrTrees ==
    {Node("OR", ls \o <<Node("AND", as \o <<Leaf("TEXT", IxText1, TextPosition(IxText1), "EXACT", 1),
                                            Leaf("EQ", IxText1, 1, "EXACT", 1)>>)>>) :
        ls \in SortedSeqs({Leaf("EQ", IxBtree, 1, "EXACT", 1),
                           Leaf("EQ", IxMulti, 1, "EXACT", 1)}, 0, 2),
        as \in {<<>>, <<Leaf("EQ", IxBtree, 1, "EXACT", 1)>>}}

WellTagged(d) == \A i \in DOMAIN d.kids : d.kids[i].idx \in {kNoIndex, d.kids[1].idx}

\* The sort the query asks for: none (0), or the key pattern of a B-tree
\* index.
Sorts == {0, IxBtree, IxMulti}

\* A root that is no AND or OR: a predicate, tagged or not, or the negation
\* of a logical node.
LeafTrees ==
    BtreeLeaves
        \cup {Leaf("GEO_NEAR", IxSphere, 1, "EXACT", 1), Leaf("GEO", Ix2d, 1, "EXACT", 1)}
        \cup {Node("NOT", <<l>>) : l \in {x \in Logicals : x.type = "AND"}}

\* A tagged predicate followed by two children without a tag.
ResidualTrees ==
    {Node(t, <<l, Untagged, u>>) :
        t \in {"AND", "OR"},
        l \in {Leaf("EQ", IxBtree, 1, g, 1) : g \in Tightness},
        u \in {Leaf("EQ", kNoIndex, 0, "EXACT", 2), Node("OR", <<Untagged, Untagged>>)}}

Init ==
    InitWith(ResidualTrees \cup FlatTrees \cup NestedTrees \cup PointTrees \cup TextOrTrees \cup LeafTrees
                 \cup {d \in TextTrees \cup GeoTrees : WellTagged(d)},
             {FALSE, TRUE}, Sorts)

Next ==
    \/ buildIndexedDataAccess
    \/ processIndexScans
    \/ processIndexScansResume
    \/ buildIndexedAnd
    \/ buildIndexedOr
    \/ arrayOperatorResume

Spec == Init /\ [][Next]_vars

(***************************************************************************)
(* The whole-collection and whole-index plans: makeCollectionScan,         *)
(* scanWholeIndex and makeIndexScan.  They run on the canonical query and  *)
(* share the heaps of the planner; query holds their arguments:            *)
(*   sort, hint : [isEmpty, natural]; natural is <<>> when the object has  *)
(*                no $natural field, else <<v>> with v the value in halves *)
(*   tailable, index, direction, startKey, endKey : the other arguments    *)
(***************************************************************************)
\* The $natural values: -1, -0.5, 0, 0.5, 1, counted in halves.
NaturalValues == {-2, -1, 0, 1, 2}

\* BSONElement::numberInt(): the value converted to int, truncated toward zero.
numberInt(v) == IF v >= 0 THEN v \div 2 ELSE -((-v) \div 2)

\* A sort or hint object: empty, without $natural, or with a $natural value.
NaturalObjs ==
    {[isEmpty |-> TRUE, natural |-> <<>>], [isEmpty |-> FALSE, natural |-> <<>>]}
        \cup {[isEmpty |-> FALSE, natural |-> <<v>>] : v \in NaturalValues}

\* CollectionScanNode(): direction is 1 until set.
CollectionScanNode ==
    [type |-> "COLLSCAN", filter |-> NULL, tailable |-> FALSE, direction |-> 1,
     kids |-> <<>>, live |-> TRUE]

\* IndexScanNode(): direction is 1 until set; IndexBounds() is no simple range.
IndexScanNode ==
    [type |-> "IXSCAN", index |-> kNoIndex, multikey |-> FALSE, direction |-> 1,
     bounds |-> [isSimpleRange |-> FALSE, fields |-> <<>>, startKey |-> 0,
                 endKey |-> 0, endKeyInclusive |-> FALSE],
     filter |-> NULL, kids |-> <<>>, live |-> TRUE]

\* FetchNode()
FetchNode == [type |-> "FETCH", filter |-> NULL, kids |-> <<>>, live |-> TRUE]

\* IndexBoundsBuilder::allValuesBounds(keyPattern, bounds): all values for
\* every field, aligned to the key pattern.
allValuesBounds(keyPattern) ==
    alignBounds([i \in DOMAIN keyPattern |-> allValuesForField(keyPattern[i])],
                keyPattern).bounds

\* QueryPlannerCommon::reverseScans on an index scan: the direction is
\* negated and every interval list reversed.
reverseScans(isn) ==
    [isn EXCEPT !.direction = -@,
                !.bounds.fields = [i \in DOMAIN @ |-> [@[i] EXCEPT !.reversed = ~@]]]

\* csn->direction = natural.numberInt() >= 0 ? 1 : -1, if obj has $natural.
NaturalDirection(obj, direction) ==
    IF obj.isEmpty \/ obj.natural = <<>> THEN direction
    ELSE IF numberInt(obj.natural[1]) >= 0 THEN 1 ELSE -1

\* The direction of the collection scan: the sort's $natural, then the hint's.
CollectionScanDirection(sort, hint) ==
    NaturalDirection(hint, NaturalDirection(sort, CollectionScanNode.direction))

ScanDone(v, ex, so) ==
    /\ exprs' = ex
    /\ solns' = so
    /\ status' = "done"
    /\ result' = v
    /\ UNCHANGED <<stack, ret, query, input>>

makeCollectionScan ==
    /\ status = "running"
    /\ stack = <<>>
    /\ LET Made(c) ==
              ScanDone(Len(solns) + 1, c.ex,
                       Append(solns,
                              [CollectionScanNode EXCEPT
                                  !.filter = c.id,
                                  !.tailable = query.tailable,
                                  !.direction = CollectionScanDirection(query.sort,
                                                                        query.hint)]))
       IN Made(CloneInto(exprs, input.root))

\* The scan alone where a Fetch is due.
WrapScanBare(ex, so, isn) == ScanDone(Len(so) + 1, ex, Append(so, isn))

\* if (AND == filter->matchType() && 0 == filter->numChildren()) the scan
\* alone, the clone deleted; else a FetchNode over the scan with the clone.
WrapScan(ex, so, isn) ==
    LET Wrapped(c) ==
            IF c.ex[c.id].type = "AND" /\ numChildren(c.ex, c.id) = 0
            THEN ScanDone(Len(so) + 1, Delete(c.ex, c.id), Append(so, isn))
            ELSE ScanDone(Len(so) + 2, c.ex,
                          Append(Append(so, isn),
                                 [FetchNode EXCEPT !.filter = c.id,
                                                   !.kids = <<Len(so) + 1>>]))
    IN Wrapped(CloneInto(ex, input.root))

scanWholeIndex ==
    /\ status = "running"
    /\ stack = <<>>
    /\ LET isn == [IndexScanNode EXCEPT
                      !.index = query.index,
                      !.multikey = indices[query.index].multikey,
                      !.bounds.fields = allValuesBounds(indices[query.index].keyPattern)]
       IN IF query.direction = -1
          THEN WrapScan(exprs, solns, [reverseScans(isn) EXCEPT !.direction = -1])
          ELSE WrapScan(exprs, solns, isn)

makeIndexScan ==
    /\ status = "running"
    /\ stack = <<>>
    /\ WrapScan(exprs, solns,
                [IndexScanNode EXCEPT
                    !.index = query.index,
                    !.multikey = indices[query.index].multikey,
                    !.direction = 1,
                    !.bounds.isSimpleRange = TRUE,
                    !.bounds.startKey = query.startKey,
                    !.bounds.endKey = query.endKey,
                    !.bounds.endKeyInclusive = FALSE])

\* The canonical roots: find({}) is the AND with no children.
ScanTrees ==
    {Node("AND", <<>>), Untagged, Node("AND", <<Untagged, Untagged>>),
     Node("OR", <<Untagged, Untagged>>)}

ScanIndexes == {IxBtree, IxMulti}

ScanInit ==
    /\ \E d \in ScanTrees, sort \in NaturalObjs, hint \in NaturalObjs,
          tailable \in BOOLEAN, k \in ScanIndexes, direction \in {1, -1},
          startKey \in Values, endKey \in Values :
          \E t \in {AddTree(<<>>, d)} :
             /\ exprs = t.h
             /\ input = [root |-> t.id, inArr |-> FALSE, exprs0 |-> t.h]
             /\ query = [sort |-> sort, hint |-> hint, tailable |-> tailable,
                         index |-> k, direction |-> direction,
                         startKey |-> startKey, endKey |-> endKey]
    /\ stack = <<>>
    /\ solns = <<>>
    /\ ret = NoRet
    /\ status = "running"
    /\ result = NULL

ScanNext ==
    \/ makeCollectionScan
    \/ scanWholeIndex
    \/ makeIndexScan

ScanSpec == ScanInit /\ [][ScanNext]_vars

(***************************************************************************)
(* Properties.                                                             *)
(***************************************************************************)
RECURSIVE PlanNodes(_, _)
\* The solution nodes of the tree rooted at n.
PlanNodes(so, n) ==
    {n} \cup UNION {PlanNodes(so, so[n].kids[i]) : i \in DOMAIN so[n].kids}

\* The outermost call has returned a solution.
Planned == status = "done" /\ result # NULL

\* The nodes of the returned solution.
ResultNodes == IF Planned THEN PlanNodes(solns, result) ELSE {}

MultikeyScan(n) ==
    /\ solns[n].type = "IXSCAN"
    /\ indices[solns[n].index].multikey
    /\ indices[solns[n].index].type # "text"

\* C1: no index scan over a multikey index that is not a text index carries
\* a filter, in the returned solution and in every scan built on the way,
\* whatever the tagging and the verdicts of the bounds builder.
C1_MultikeyScanHasNoFilter ==
    \A n \in DOMAIN solns : MultikeyScan(n) => solns[n].filter = NULL

\* A returned solution holds a multikey scan into which a predicate with
\* verdict INEXACT_COVERED was merged.
C1_Witness ==
    \E n \in ResultNodes :
        /\ MultikeyScan(n)
        /\ Len(solns[n].merged) >= 2
        /\ solns[n].merged[2].tight = "INEXACT_COVERED"
        /\ solns[n].filter = NULL

\* The loop of processIndexScans is about to look at a bounds-generating
\* child tagged with the index of the in-flight index scan.
ScanChild == getChild(exprs, Top.root, Top.curChild)

ScanTag ==
    IF exprs[ScanChild].type = "NOT" THEN getChild(exprs, ScanChild, 1) ELSE ScanChild

AtInFlightScan ==
    /\ Running
    /\ ret = NoRet
    /\ Top.fn \in {"and", "or"}
    /\ Top.pc = "scan"
    /\ ScanContinues(Top)
    /\ isBoundsGenerating(exprs, ScanChild)
    /\ Top.cur # NULL
    /\ solns[Top.cur].type = "IXSCAN"
    /\ exprs[ScanTag].idx = Top.curIdx

AtBoundPosition == AtInFlightScan /\ solns[Top.cur].bounds[exprs[ScanTag].pos].name # ""

AtUnboundPosition == AtInFlightScan /\ solns[Top.cur].bounds[exprs[ScanTag].pos].name = ""

\* The step merged the child into the in-flight scan by op.
MergedBy(op) ==
    /\ Len(solns'[Top.cur].merged) = Len(solns[Top.cur].merged) + 1
    /\ Last(solns'[Top.cur].merged).op = op
    /\ Last(solns'[Top.cur].merged).pred = exprs[ScanChild].orig

\* The step left the in-flight scan as it was and opened a leaf for the child.
OpenedLeaf ==
    /\ Len(solns') = Len(solns) + 1
    /\ solns'[Top.cur].merged = solns[Top.cur].merged
    /\ solns'[Len(solns')].type = "IXSCAN"
    /\ solns'[Len(solns')].merged[1].pred = exprs[ScanChild].orig

MergePolicyStep ==
    status' = "running" =>
        /\ AtUnboundPosition => MergedBy("translate")
        /\ (AtBoundPosition /\ Top.fn = "or") => MergedBy("union")
        /\ (AtBoundPosition /\ Top.fn = "and" /\ ~indices[Top.curIdx].multikey)
              => MergedBy("intersect")
        /\ (AtBoundPosition /\ Top.fn = "and" /\ indices[Top.curIdx].multikey)
              => OpenedLeaf

NoIntersectOnMultikey ==
    \A n \in DOMAIN solns :
        MultikeyScan(n) =>
            \A i \in DOMAIN solns[n].merged : solns[n].merged[i].op # "intersect"

\* C2: no index scan over a multikey index has two predicates intersected at
\* one key position; a child whose position is already bound in the in-flight
\* scan is intersected under AND only if the index is not multikey (a new
\* leaf is opened otherwise), is merged by union under OR, and a child on an
\* unbound position is always compounded into the in-flight scan.
C2_MergePolicy == []NoIntersectOnMultikey /\ [][MergePolicyStep]_vars

\* An AND over two predicates on one position of a multikey index was
\* planned as two scans of that index.
C2_Witness ==
    /\ Planned
    /\ input.exprs0[input.root].type = "AND"
    /\ \E n1, n2 \in ResultNodes :
          /\ n1 # n2
          /\ MultikeyScan(n1)
          /\ MultikeyScan(n2)
          /\ solns[n1].index = solns[n2].index
          /\ solns[n1].merged[1].pos = solns[n2].merged[1].pos

RECURSIVE LiveSubtree(_, _)
\* The nodes of the predicate tree rooted at e that have not been deleted.
LiveSubtree(ex, e) ==
    IF ~ex[e].live THEN {}
    ELSE {e} \cup UNION {LiveSubtree(ex, ex[e].kids[i]) : i \in DOMAIN ex[e].kids}

\* The predicates of the input tree: its bounds-generating nodes (a negated
\* predicate counts once, as the negation).
InputPreds ==
    {e \in DOMAIN input.exprs0 :
        /\ isBoundsGenerating(input.exprs0, e)
        /\ \A q \in DOMAIN input.exprs0 :
              isBoundsGeneratingNot(input.exprs0, q) => e \notin Range(input.exprs0[q].kids)}

\* The leaves of the returned solution whose bounds took predicate p.
LeavesUsing(p) ==
    {n \in ResultNodes : \E i \in DOMAIN solns[n].merged : solns[n].merged[i].pred = p}

\* p's bounds went into a leaf of the returned solution with verdict EXACT.
UsedExactly(p) ==
    \E n \in ResultNodes : \E i \in DOMAIN solns[n].merged :
        solns[n].merged[i].pred = p /\ solns[n].merged[i].tight = "EXACT"

\* Solution node n carries p (or a clone of it) in its filter.
FilterHolds(n, p) ==
    /\ solns[n].filter # NULL
    /\ \E e \in LiveSubtree(exprs, solns[n].filter) : exprs[e].orig = p

\* p is in the filter of a node at or above every leaf that used it; a
\* predicate no leaf used is in the filter of some node.
FilteredAbove(p) ==
    IF LeavesUsing(p) = {} THEN \E n \in ResultNodes : FilterHolds(n, p)
    ELSE \A l \in LeavesUsing(p) :
            \E n \in ResultNodes : l \in PlanNodes(solns, n) /\ FilterHolds(n, p)

\* p is an equality on a prefix field of a text index whose value went into
\* the indexPrefix of the Text leaf.
InIndexPrefix(p) ==
    \E n \in ResultNodes :
        /\ solns[n].type = "TEXT"
        /\ \E i \in DOMAIN solns[n].merged :
              /\ solns[n].merged[i].pred = p
              /\ solns[n].merged[i].pos <= Len(solns[n].prefix)
              /\ solns[n].prefix[solns[n].merged[i].pos] = input.exprs0[p].val

\* The outermost call was made outside an array operator and returned a solution.
PlannedAtTop == Planned /\ ~input.inArr

\* C3 as stated: in a returned solution every predicate of the input tree
\* either went into a leaf with verdict EXACT or is still in the filter of a
\* scan or Fetch at or above the leaf that used it.
C3_ExactOrFiltered ==
    PlannedAtTop => \A p \in InputPreds : UsedExactly(p) \/ FilteredAbove(p)

\* C3 amended: ... or it is an equality on a prefix field of a text index
\* that finishTextNode moved from the Text leaf's filter into its indexPrefix.
C3_ExactOrFilteredOrPrefix ==
    PlannedAtTop =>
        \A p \in InputPreds : UsedExactly(p) \/ FilteredAbove(p) \/ InIndexPrefix(p)

\* A solution was returned for a tree with a predicate whose verdict was not
\* EXACT, and that predicate is in the filter of a Fetch above its leaf.
C3_Witness ==
    /\ PlannedAtTop
    /\ \E p \in InputPreds :
          /\ ~UsedExactly(p)
          /\ LeavesUsing(p) # {}
          /\ \A l \in LeavesUsing(p) :
                \E n \in ResultNodes :
                    /\ n # l
                    /\ solns[n].type = "FETCH"
                    /\ l \in PlanNodes(solns, n)
                    /\ FilterHolds(n, p)

(***************************************************************************)
(* A reference evaluator.  A document gives each field the set of values   *)
(* it holds there: one value for a scalar field, the elements for an array *)
(* field.  Only the fields of the multikey index hold arrays.              *)
(***************************************************************************)
DocFields == {"a", "b", "c", "d"}

ArrayFields == {"c", "d"}

Docs ==
    {doc \in [DocFields -> SUBSET Values \ {{}}] :
        \A f \in DocFields \ ArrayFields : Cardinality(doc[f]) = 1}

RECURSIVE Sat(_, _, _)
\* Document doc satisfies the predicate tree rooted at e.
Sat(ex, e, doc) ==
    CASE ex[e].type = "EQ" -> ex[e].val \in doc[ex[e].path]
      [] ex[e].type = "NOT" -> ~Sat(ex, ex[e].kids[1], doc)
      [] ex[e].type = "AND" -> \A i \in DOMAIN ex[e].kids : Sat(ex, ex[e].kids[i], doc)
      [] ex[e].type = "OR" -> \E i \in DOMAIN ex[e].kids : Sat(ex, ex[e].kids[i], doc)
      [] ex[e].type = "NOR" -> \A i \in DOMAIN ex[e].kids : ~Sat(ex, ex[e].kids[i], doc)
      [] OTHER -> FALSE

RECURSIVE Returns(_, _, _, _)
\* The solution tree rooted at n returns document doc: an index scan returns
\* it if one of its index keys lies within the bounds at every position and
\* the in-scan filter accepts it, a Fetch if its child returns it and its
\* filter accepts it, an intersection if all children do, a union if one does.
Returns(ex, so, n, doc) ==
    LET Filtered == so[n].filter = NULL \/ Sat(ex, so[n].filter, doc)
    IN CASE so[n].type = "IXSCAN" ->
               /\ \A i \in DOMAIN so[n].bounds :
                     doc[indices[so[n].index].keyPattern[i].field]
                         \cap so[n].bounds[i].intervals # {}
               /\ Filtered
         [] so[n].type = "FETCH" -> Returns(ex, so, so[n].kids[1], doc) /\ Filtered
         [] so[n].type \in {"AND_HASH", "AND_SORTED"} ->
               \A i \in DOMAIN so[n].kids : Returns(ex, so, so[n].kids[i], doc)
         [] so[n].type \in {"OR", "MERGE_SORT"} ->
               \E i \in DOMAIN so[n].kids : Returns(ex, so, so[n].kids[i], doc)
         [] OTHER -> FALSE

\* The input is a tree of AND, OR and (negated) equality predicates over the
\* B-tree indexes, tagged as the plan enumerator tags: a child of an OR uses
\* the leading field of its index, and the predicates of an AND that share
\* an index include one on its leading field.
PlainInput ==
    LET ex == input.exprs0
    IN /\ \A e \in DOMAIN ex : ex[e].type \in {"AND", "OR", "NOT", "EQ"}
       /\ \A e \in DOMAIN ex : ex[e].idx \in {kNoIndex, IxBtree, IxMulti}
       /\ \A e \in DOMAIN ex :
             ex[e].type = "OR" =>
                 \A i \in DOMAIN ex[e].kids :
                     HasTag(ex, ex[e].kids[i]) /\ isBoundsGenerating(ex, ex[e].kids[i])
                         => ex[ex[e].kids[i]].pos = 1
       /\ \A e \in DOMAIN ex :
             ex[e].type = "AND" =>
                 \A i \in DOMAIN ex[e].kids :
                     HasTag(ex, ex[e].kids[i]) /\ isBoundsGenerating(ex, ex[e].kids[i])
                         => \E j \in DOMAIN ex[e].kids :
                                /\ ex[ex[e].kids[j]].idx = ex[ex[e].kids[i]].idx
                                /\ isBoundsGenerating(ex, ex[e].kids[j])
                                /\ ex[ex[e].kids[j]].pos = 1

\* The verdicts are truthful: the bounds of an EXACT predicate hold exactly
\* the keys of the documents that satisfy it.  (The bounds of a negation over
\* an array field also hold keys of documents that do not satisfy it.)
TruthfulVerdicts ==
    \A e \in DOMAIN input.exprs0 :
        (input.exprs0[e].type = "NOT" /\ input.exprs0[e].path \in ArrayFields)
            => input.exprs0[e].tight = "INEXACT_FETCH"

\* C4: the returned solution, evaluated over any document, returns the
\* document exactly if it satisfies the input predicate tree (the verdicts of
\* the bounds builder being truthful).
C4_RoundTrip ==
    (PlannedAtTop /\ PlainInput /\ TruthfulVerdicts) =>
        \A doc \in Docs :
            Returns(exprs, solns, result, doc) <=> Sat(input.exprs0, input.root, doc)

\* buildIndexedOr is about to end: processIndexScans has gone through the
\* children of the OR node Top.root.
AtEndOfOr ==
    /\ Running
    /\ ret = NoRet
    /\ Top.fn = "or"
    /\ Top.pc = "scan"
    /\ ~ScanContinues(Top)

\* The step made an Or / MergeSort node over two or more solutions.
MadeOrNode ==
    /\ AtEndOfOr
    /\ Len(solns') = Len(solns) + 1
    /\ solns'[Len(solns')].type \in {"OR", "MERGE_SORT"}
    /\ Len(solns'[Len(solns')].kids) >= 2

\* The leaf of solution n: n itself, or the child of the Fetch n.
LeafOf(so, n) == IF so[n].type = "FETCH" THEN so[n].kids[1] ELSE n

\* Solution n was made from a bounds-generating child of the predicate node r.
FromPredicateOf(so, n, r) ==
    /\ so[LeafOf(so, n)].type \in LeafNodeTypes
    /\ so[LeafOf(so, n)].merged[1].pred \in Range(input.exprs0[r].kids)

ExactLeaf(so, n) ==
    /\ so[n].type \in LeafNodeTypes
    /\ \A i \in DOMAIN so[n].merged : so[n].merged[i].tight = "EXACT"

FetchOverLeaf(so, n) ==
    /\ so[n].type = "FETCH"
    /\ so[so[n].kids[1]].type \in LeafNodeTypes

\* Every predicate merged into leaf n with a verdict other than EXACT is in
\* the filter of the leaf.
CoveredLeaf(ex, so, n) ==
    /\ so[n].type \in LeafNodeTypes
    /\ \A i \in DOMAIN so[n].merged :
          so[n].merged[i].tight # "EXACT" =>
              /\ so[n].filter # NULL
              /\ \E e \in LiveSubtree(ex, so[n].filter) : ex[e].orig = so[n].merged[i].pred

C5_OrStep ==
    MadeOrNode =>
        /\ \A i \in DOMAIN solns'[Len(solns')].kids :
              FromPredicateOf(solns', solns'[Len(solns')].kids[i], Top.root) =>
                  \/ ExactLeaf(solns', solns'[Len(solns')].kids[i])
                  \/ FetchOverLeaf(solns', solns'[Len(solns')].kids[i])
        /\ \A i \in DOMAIN exprs'[Top.root].kids :
              ~HasTag(exprs', exprs'[Top.root].kids[i])

\* C5 as stated: when buildIndexedOr makes an Or / MergeSort node, each of
\* its children that came from a bounds-generating child of the OR is a leaf
\* all of whose merged predicates were EXACT or a Fetch over the leaf, and no
\* tagged child is left on the OR.
C5_ExactOrFetched == [][C5_OrStep]_vars

C5_AmendedOrStep ==
    MadeOrNode =>
        /\ \A i \in DOMAIN solns'[Len(solns')].kids :
              FromPredicateOf(solns', solns'[Len(solns')].kids[i], Top.root) =>
                  \/ ExactLeaf(solns', solns'[Len(solns')].kids[i])
                  \/ FetchOverLeaf(solns', solns'[Len(solns')].kids[i])
                  \/ CoveredLeaf(exprs', solns', solns'[Len(solns')].kids[i])
        /\ \A i \in DOMAIN exprs'[Top.root].kids :
              HasTag(exprs', exprs'[Top.root].kids[i]) =>
                  /\ Top.inArr
                  /\ ~isBoundsGenerating(exprs', exprs'[Top.root].kids[i])

\* C5 amended: ... or a leaf that carries its covered predicates as its own
\* filter; no bounds-generating child is left on the OR, and a tagged logical
\* or array child is left on it only inside an array operator.
C5_ExactFetchedOrCovered == [][C5_AmendedOrStep]_vars

\* An Or node was returned for an OR of bounds-generating children, one of
\* its children a Fetch over a leaf and one an exact leaf.
C5_Witness ==
    /\ Planned
    /\ solns[result].type = "OR"
    /\ input.exprs0[input.root].type = "OR"
    /\ \E n1, n2 \in Range(solns[result].kids) :
          /\ FromPredicateOf(solns, n1, input.root)
          /\ FromPredicateOf(solns, n2, input.root)
          /\ FetchOverLeaf(solns, n1)
          /\ ExactLeaf(solns, n2)

\* The values common to the bounds of all predicates merged into leaf n at
\* position i.
CommonValues(n, i) ==
    {v \in Values :
        \A j \in DOMAIN solns[n].merged :
            solns[n].merged[j].pos = i => v \in Bnd(input.exprs0, solns[n].merged[j].pred)}

IntersectedAt(n, i) ==
    \E j \in DOMAIN solns[n].merged :
        solns[n].merged[j].pos = i /\ solns[n].merged[j].op = "intersect"

\* The bounds of index scan n have the shape of its key pattern: one list
\* per key element, named after it.
BoundsShaped(n) ==
    /\ Len(solns[n].bounds) = nFields(solns[n].index)
    /\ \A i \in DOMAIN solns[n].bounds :
          solns[n].bounds[i].name = indices[solns[n].index].keyPattern[i].field

FinishedPrefixedText ==
    {n \in DOMAIN solns :
        /\ solns[n].live
        /\ solns[n].type = "TEXT"
        /\ solns[n].finished > 0
        /\ prefixEnd(solns[n].index) > 0}

\* The predicates attached to the filter of Text leaf n, in the order of
\* attachment, and those of them that are not on prefix fields.
Attached(n) == SelectSeq(solns[n].merged, LAMBDA h : h.op = "none")

Remaining(n) ==
    SelectSeq(Attached(n), LAMBDA h : h.pos > prefixEnd(solns[n].index))

\* indexPrefix of Text leaf n holds, position by position, the value of the
\* equality attached for that position.
PrefixByPosition(n) ==
    /\ Len(solns[n].prefix) = prefixEnd(solns[n].index)
    /\ \A i \in DOMAIN solns[n].prefix :
          \E j \in DOMAIN Attached(n) :
              /\ Attached(n)[j].pos = i
              /\ input.exprs0[Attached(n)[j].pred].type = "EQ"
              /\ solns[n].prefix[i] = input.exprs0[Attached(n)[j].pred].val

\* No prefix equality is left in the filter of Text leaf n.
PrefixOutOfFilter(n) ==
    \/ solns[n].filter = NULL
    \/ \A e \in LiveSubtree(exprs, solns[n].filter) :
          ~(HasTag(exprs, e) /\ ~isLogical(exprs, e)
              /\ exprs[e].pos <= prefixEnd(solns[n].index))

\* The filter of Text leaf n is absent, the one remaining predicate, or the
\* AND of the remaining predicates.
FilterReduced(n) ==
    LET Reduced(rem, f) ==
            IF Len(rem) = 0 THEN f = NULL
            ELSE IF Len(rem) = 1 THEN
                f # NULL /\ exprs[f].live /\ exprs[f].orig = rem[1].pred
            ELSE /\ f # NULL
                 /\ exprs[f].live
                 /\ exprs[f].type = "AND"
                 /\ [i \in DOMAIN exprs[f].kids |-> exprs[exprs[f].kids[i]].orig]
                        = [i \in DOMAIN rem |-> rem[i].pred]
    IN Reduced(Remaining(n), solns[n].filter)

\* C7: a finished Text leaf over an index with prefix fields has the prefix
\* equalities' values in indexPrefix in key order, whatever the order of
\* attachment, none of them in its filter, and as filter nothing, the single
\* remaining predicate, or the AND of the remaining ones.
C7_TextPrefixExtracted ==
    status # "aborted" =>
        \A n \in FinishedPrefixedText :
            PrefixByPosition(n) /\ PrefixOutOfFilter(n) /\ FilterReduced(n)

\* A Text leaf with two prefix equalities attached against the key order
\* and with different values, and a predicate left for its filter.
C7_Witness ==
    /\ Planned
    /\ \E n \in FinishedPrefixedText \cap ResultNodes :
          /\ \E j, k \in DOMAIN Attached(n) :
                /\ j < k
                /\ Attached(n)[k].pos < Attached(n)[j].pos
                /\ Attached(n)[j].pos <= prefixEnd(solns[n].index)
                /\ input.exprs0[Attached(n)[j].pred].val
                      # input.exprs0[Attached(n)[k].pred].val
          /\ Len(Remaining(n)) = 1
          /\ solns[n].filter # NULL

\* A Text leaf with one prefix field, the equality being the whole filter.
C7_WitnessSingle ==
    /\ Planned
    /\ \E n \in FinishedPrefixedText \cap ResultNodes :
          /\ prefixEnd(solns[n].index) = 1
          /\ Len(Attached(n)) = 1
          /\ solns[n].filter = NULL

\* The owners of predicate node e: the live predicate nodes that hold it as
\* a child and the live solution nodes that hold it as their filter.
Owners(e) ==
    {<<"child of", p>> : p \in {q \in DOMAIN exprs :
                                   exprs[q].live /\ e \in Range(exprs[q].kids)}}
        \cup {<<"filter of", n>> : n \in {m \in DOMAIN solns :
                                             solns[m].live /\ solns[m].filter = e}}

\* C8: in every state, planning or returned, a predicate node has exactly
\* one owner: it is never the filter (or part of the filter) of a solution
\* node and also a child of another predicate node or part of another filter.
C8_UniqueOwner ==
    status # "aborted" =>
        \A e \in DOMAIN exprs : exprs[e].live => Cardinality(Owners(e)) <= 1

\* The outermost call has returned the no-plan result.
NoPlan == status = "done" /\ result = NULL

\* The input predicates whose bounds went into no scan.
Unconsumed ==
    {e \in InputPreds :
        \A n \in DOMAIN solns : \A j \in DOMAIN solns[n].merged :
            solns[n].merged[j].pred # e}

\* C9: when the call returns the no-plan result, no solution node allocated
\* during the call stays allocated, and every predicate that was not
\* consumed is still a live node of the input predicate tree.
C9_NoPlanReleasesNodesKeepsPredicates ==
    NoPlan =>
        /\ \A n \in DOMAIN solns : ~solns[n].live
        /\ \A e \in Unconsumed :
              \E x \in LiveSubtree(exprs, input.root) : exprs[x].orig = e

\* The first half alone: no solution node stays allocated.
C9_NoPlanReleasesNodes ==
    NoPlan => \A n \in DOMAIN solns : ~solns[n].live

\* The second half alone: unconsumed predicates stay in the input tree.
C9_NoPlanKeepsPredicates ==
    NoPlan =>
        \A e \in Unconsumed :
            \E x \in LiveSubtree(exprs, input.root) : exprs[x].orig = e

\* buildIndexedOr is about to finish (the scan collector has run) over a
\* root that will keep a child which was not turned into a branch.
OrWithResidualChild ==
    /\ Running
    /\ ret = NoRet
    /\ Top.fn = "or"
    /\ Top.pc = "scan"
    /\ ~ScanContinues(Top)
    /\ \E i \in 1..numChildren(exprs, Top.root) :
          ~HasTag(exprs, getChild(exprs, Top.root, i))

\* buildIndexedOr returns the no-plan result in this step.
OrReturnsNoPlan ==
    /\ Len(stack') = Len(stack) - 1
    /\ IF Len(stack) = 1 THEN status' = "done" /\ result' = NULL
       ELSE ret' = <<NULL>>

C10_OrStep == OrWithResidualChild /\ status' # "aborted" => OrReturnsNoPlan

\* C10: buildIndexedOr returns the no-plan result whenever the OR root
\* still has an untagged child after the scan collector has run, whether or
\* not it runs inside an array operator.
C10_OrWithResidualReturnsNoPlan == [][C10_OrStep]_vars

\* The public entry point returned a plan for an $elemMatch over an OR of
\* which one branch has no index tag.
PartialOrPlanUnderElemMatch ==
    /\ Planned
    /\ ~input.inArr
    /\ input.exprs0[input.root].type = "ELEM_MATCH_OBJECT"
    /\ \E o \in Range(input.exprs0[input.root].kids) :
          /\ input.exprs0[o].type = "OR"
          /\ \E c \in Range(input.exprs0[o].kids) : ~HasTag(input.exprs0, c)
          /\ \E c \in Range(input.exprs0[o].kids) : HasTag(input.exprs0, c)

\* buildIndexedAnd is about to finish and the scan collector has produced no
\* leaf solution.
AndWithNoLeaf ==
    /\ Running
    /\ ret = NoRet
    /\ Top.fn = "and"
    /\ Top.pc = "scan"
    /\ ~ScanContinues(Top)
    /\ Top.out = <<>>
    /\ Top.cur = NULL

\* The running call returns the no-plan result in this step.
ReturnsNoPlan ==
    /\ status' # "aborted"
    /\ Len(stack') = Len(stack) - 1
    /\ IF Len(stack) = 1 THEN status' = "done" /\ result' = NULL
       ELSE ret' = <<NULL>>

C11_AndStep == AndWithNoLeaf => ReturnsNoPlan

\* C11: when the scan collector produces no leaf solution for an AND root,
\* buildIndexedAnd returns the no-plan result: it neither aborts nor returns
\* a plan.
C11_AndWithNoLeafReturnsNoPlan == [][C11_AndStep]_vars

\* The subtree of input node r is as it was given: every node alive, with
\* the children it had.
Intact(r) ==
    \A e \in Subtree(input.exprs0, r) :
        exprs[e].live /\ exprs[e].kids = input.exprs0[e].kids

\* The outermost call, outside an array operator, planned an array operator
\* that uses indexes on its children.
PlannedArrayOperator ==
    /\ PlannedAtTop
    /\ arrayUsesIndexOnChildren(input.exprs0, input.root)

\* C12: a successful call outside array context on an $elemMatch object or
\* $all returns a Fetch whose filter is the original subtree, every
\* predicate of it still in place: planning its children in array context
\* removes, deletes or moves none of them.
C12_ArrayOperatorKeptWhole ==
    PlannedArrayOperator =>
        /\ solns[result].type = "FETCH"
        /\ solns[result].filter = input.root
        /\ Intact(input.root)
        /\ \A n \in ResultNodes :
              n # result => solns[n].filter \notin Subtree(input.exprs0, input.root)

\* An array operator was planned and a predicate inside it with verdict
\* EXACT, merged into a leaf, has been deleted.
ArrayOperatorLostExactPredicate ==
    /\ PlannedArrayOperator
    /\ \E e \in Subtree(input.exprs0, input.root) :
          /\ input.exprs0[e].tight = "EXACT"
          /\ isBoundsGenerating(input.exprs0, e)
          /\ HasTag(input.exprs0, e)
          /\ ~exprs[e].live

\* The tagged $elemMatch (object) children of the AND given to the
\* outermost call.
ElemMatchChildrenOfAnd ==
    IF input.exprs0[input.root].type # "AND" THEN {}
    ELSE {c \in Range(input.exprs0[input.root].kids) :
             /\ input.exprs0[c].type = "ELEM_MATCH_OBJECT"
             /\ HasTag(input.exprs0, c)}

\* C13: a tagged $elemMatch child of an AND root, and every predicate inside
\* it, stays as it was whatever the verdicts of the predicates merged from
\* it, and outside array context the returned Fetch's filter contains it.
C13_ElemMatchLeftInPlace ==
    PlannedAtTop =>
        \A c \in ElemMatchChildrenOfAnd :
            /\ Intact(c)
            /\ solns[result].type = "FETCH"
            /\ solns[result].filter # NULL
            /\ c \in LiveSubtree(exprs, solns[result].filter)

\* The input is an AND of a $near predicate on the 2dsphere index and a
\* predicate on the second field of that index with verdict INEXACT_FETCH.
NearAndInexact ==
    /\ input.exprs0[input.root].type = "AND"
    /\ Len(input.exprs0[input.root].kids) = 2
    /\ input.exprs0[input.exprs0[input.root].kids[1]].type = "GEO_NEAR"
    /\ input.exprs0[input.exprs0[input.root].kids[2]].idx = IxSphere
    /\ input.exprs0[input.exprs0[input.root].kids[2]].pos = 2
    /\ input.exprs0[input.exprs0[input.root].kids[2]].tight = "INEXACT_FETCH"

\* The result is a Fetch over one 2dsphere near leaf whose base bounds hold
\* the intervals of predicate p at position 2 and all values at position 1.
FetchOverNearLeaf(p) ==
    LET Shaped(leaf) ==
            /\ solns[leaf].type = "GEO_NEAR_2DSPHERE"
            /\ solns[leaf].kids = <<>>
            /\ Len(solns[leaf].bounds) = nFields(IxSphere)
            /\ solns[leaf].bounds[1].name = "loc"
            /\ solns[leaf].bounds[1].intervals = Values
            /\ solns[leaf].bounds[2].name = "x"
            /\ solns[leaf].bounds[2].intervals = Bnd(input.exprs0, p)
    IN /\ solns[result].type = "FETCH"
       /\ Len(solns[result].kids) = 1
       /\ Shaped(solns[result].kids[1])

\* C14 as stated: ... and the Fetch's filter is the original predicate, the
\* near predicate and the second predicate both still in it.
C14_NearFetchKeepsBoth ==
    PlannedAtTop /\ NearAndInexact =>
        /\ FetchOverNearLeaf(input.exprs0[input.root].kids[2])
        /\ solns[result].filter = input.root
        /\ Intact(input.root)

\* C14 amended: ... and the Fetch's filter is the second predicate alone;
\* the near predicate went into the leaf and was deleted.
C14_NearFetchKeepsSecond ==
    PlannedAtTop /\ NearAndInexact =>
        /\ FetchOverNearLeaf(input.exprs0[input.root].kids[2])
        /\ solns[result].filter = input.exprs0[input.root].kids[2]
        /\ Intact(input.exprs0[input.root].kids[2])
        /\ ~exprs[input.exprs0[input.root].kids[1]].live

C14_Witness == PlannedAtTop /\ NearAndInexact /\ solns[result].type = "FETCH"

AtEndOfAnd ==
    /\ Running
    /\ ret = NoRet
    /\ Top.fn = "and"
    /\ Top.pc = "scan"
    /\ ~ScanContinues(Top)

\* The running call returns a solution in this step.
ReturnsPlan ==
    /\ status' # "aborted"
    /\ Len(stack') = Len(stack) - 1
    /\ IF Len(stack) = 1 THEN result' # NULL ELSE ret' # <<NULL>>

\* The solution returned by the step.
Returned == IF Len(stack) = 1 THEN result' ELSE ret'[1]

\* The solutions the scan collector leaves to its caller: *out and the scan
\* still in flight.
Collected == IF Top.cur = NULL THEN Top.out ELSE Append(Top.out, Top.cur)

\* The step allocated a Fetch and returns it.
MadeFetch == Returned > Len(solns) /\ solns'[Returned].type = "FETCH"

\* n is the single collected solution, or an intersection node made in this
\* step over the collected solutions.
LeafOrIntersection(n) ==
    IF Len(Collected) = 1 THEN n = Collected[1]
    ELSE /\ n > Len(solns)
         /\ solns'[n].type \in {"AND_HASH", "AND_SORTED"}

C15_AndStep ==
    AtEndOfAnd /\ ReturnsPlan =>
        /\ MadeFetch <=> (~Top.inArr /\ numChildren(exprs, Top.root) > 0)
        /\ MadeFetch =>
              /\ Len(solns'[Returned].kids) = 1
              /\ LeafOrIntersection(solns'[Returned].kids[1])
              /\ solns'[Returned].filter =
                    IF numChildren(exprs, Top.root) = 1
                    THEN getChild(exprs, Top.root, 1) ELSE Top.root
              /\ exprs'[solns'[Returned].filter].live
              /\ exprs'[solns'[Returned].filter].kids = exprs[solns'[Returned].filter].kids
        /\ ~MadeFetch => LeafOrIntersection(Returned)

\* C15: buildIndexedAnd, when it succeeds, puts a Fetch over its result if
\* and only if it runs outside an array operator and the AND still has a
\* child after the scan collector ran; the Fetch has one child, the single
\* leaf or the intersection node, and its filter is the remaining child when
\* one remains and the AND with its remaining children otherwise; with no
\* child left, or inside an array operator, the bare leaf or intersection is
\* returned.
C15_FetchIffResidual == [][C15_AndStep]_vars

\* An AND was planned with two children left under it: the result is a Fetch
\* whose filter is the AND.
C15_Witness ==
    /\ PlannedAtTop
    /\ input.exprs0[input.root].type = "AND"
    /\ solns[result].type = "FETCH"
    /\ solns[result].filter = input.root
    /\ Len(exprs[input.root].kids) >= 2

\* An AND was planned with no child left under it: the bare leaf is returned.
C15_WitnessBare ==
    /\ PlannedAtTop
    /\ input.exprs0[input.root].type = "AND"
    /\ solns[result].type = "IXSCAN"
    /\ ~exprs[input.root].live

C15_LiteralAndStep ==
    AtEndOfAnd /\ ReturnsPlan =>
        (solns'[Returned].type = "FETCH"
            <=> (~Top.inArr /\ numChildren(exprs, Top.root) > 0))

\* C15 read by the letter: the node buildIndexedAnd returns is a Fetch if and
\* only if it runs outside an array operator and the AND still has a child.
C15_ReturnsFetchIffResidual == [][C15_LiteralAndStep]_vars

\* The intersection node made by the step.
AndNode == IF MadeFetch THEN solns'[Returned].kids[1] ELSE Returned

C16_AndStep ==
    AtEndOfAnd /\ ReturnsPlan /\ Len(Collected) >= 2 =>
        /\ AndNode > Len(solns)
        /\ solns'[AndNode].type =
              IF \A i \in DOMAIN Collected : sortedByDiskLoc(solns', Collected[i])
              THEN "AND_SORTED" ELSE "AND_HASH"
        /\ Len(solns'[AndNode].kids) = Len(Collected)
        /\ Range(solns'[AndNode].kids) = Range(Collected)
        /\ (/\ solns'[AndNode].type = "AND_HASH"
            /\ \E i \in DOMAIN Collected : query.sort \in getSort(solns', Collected[i]))
              => query.sort \in getSort(solns', Last(solns'[AndNode].kids))

\* C16: over two or more collected solutions buildIndexedAnd makes an
\* AndSorted node exactly when all of them are sorted by disk location and
\* an AndHash node otherwise; the node's children are the collected
\* solutions, none lost or repeated; and in an AndHash node the last child
\* provides the requested sort whenever some child does.
C16_IntersectionKind == [][C16_AndStep]_vars

\* An AndHash node was returned whose first collected solution provides the
\* requested sort and was moved to the end.
C16_Witness ==
    /\ Planned
    /\ \E n \in ResultNodes :
          /\ solns[n].type = "AND_HASH"
          /\ Len(solns[n].kids) = 2
          /\ solns[n].kids[2] < solns[n].kids[1]
          /\ query.sort \in getSort(solns, solns[n].kids[2])
          /\ query.sort \notin getSort(solns, solns[n].kids[1])

\* An AndSorted node was returned.
C16_WitnessSorted ==
    /\ Planned
    /\ \E n \in ResultNodes : solns[n].type = "AND_SORTED" /\ Len(solns[n].kids) = 2

\* The solution nodes allocated by the step.
NewNodes == (DOMAIN solns') \ (DOMAIN solns)

C17_OrStep ==
    AtEndOfOr /\ ReturnsPlan =>
        /\ \A n \in NewNodes : solns'[n].type # "FETCH"
        /\ Len(Collected) >= 2 =>
              /\ Returned \in NewNodes
              /\ Range(solns'[Returned].kids) = Range(Collected)
              /\ IF /\ query.sort # 0
                    /\ \A i \in DOMAIN Collected :
                          query.sort \in getSort(solns', Collected[i])
                 THEN /\ solns'[Returned].type = "MERGE_SORT"
                      /\ solns'[Returned].sort = query.sort
                 ELSE solns'[Returned].type = "OR"

\* C17: over two or more collected solutions buildIndexedOr returns a
\* MergeSort with the requested sort exactly when a sort is requested and
\* every child's sort set holds it, and a plain Or in every other case; it
\* never puts a Fetch over its result.
C17_MergeSortIffSharedSort == [][C17_OrStep]_vars

\* A MergeSort node was returned for an OR.
C17_Witness ==
    /\ Planned
    /\ solns[result].type = "MERGE_SORT"
    /\ solns[result].sort = query.sort
    /\ Len(solns[result].kids) >= 2

\* A plain Or was returned although a sort was requested and the first
\* child provides it.
C17_WitnessOr ==
    /\ Planned
    /\ solns[result].type = "OR"
    /\ query.sort # 0
    /\ Len(solns[result].kids) >= 2
    /\ \E i \in DOMAIN solns[result].kids : query.sort \in getSort(solns, solns[result].kids[i])

\* The child of the OR given to predicate node r that solution n answers:
\* the branch of the first predicate merged into n's leftmost leaf, or the
\* logical / array branch that holds it.
RECURSIVE FirstLeaf(_, _)
FirstLeaf(so, n) ==
    IF so[n].type \in LeafNodeTypes \/ so[n].kids = <<>> THEN n
    ELSE FirstLeaf(so, so[n].kids[1])

BranchOf(so, n, r) ==
    LET p == so[FirstLeaf(so, n)].merged[1].pred
    IN MinOf({i \in DOMAIN input.exprs0[r].kids :
                 p \in Subtree(input.exprs0, input.exprs0[r].kids[i])})

\* In the children ks of the node made for the OR r, Text nodes come first,
\* and Text nodes among themselves and the others among themselves follow
\* the order of the OR's branches.
TextFirstInBranchOrder(so, ks, r) ==
    \A i, j \in DOMAIN ks :
        i < j =>
            /\ so[ks[j]].type = "TEXT" => so[ks[i]].type = "TEXT"
            /\ (so[ks[i]].type = "TEXT") = (so[ks[j]].type = "TEXT")
                  => BranchOf(so, ks[i], r) < BranchOf(so, ks[j], r)

C18_OrStep ==
    AtEndOfOr /\ ReturnsPlan /\ Len(Collected) >= 2 =>
        TextFirstInBranchOrder(solns', solns'[Returned].kids, Top.root)

\* C18: in the Or / MergeSort node buildIndexedOr returns, Text children
\* come before all others, and within each of the two groups the children
\* follow the order of the OR branches that produced them.
C18_TextFirstBranchOrder == [][C18_OrStep]_vars

\* The place of solution n among the collected solutions.
CollectedAt(n) == CHOOSE i \in DOMAIN Collected : Collected[i] = n

C18_AmendedOrStep ==
    AtEndOfOr /\ ReturnsPlan /\ Len(Collected) >= 2 =>
        /\ Range(solns'[Returned].kids) = Range(Collected)
        /\ \A i, j \in DOMAIN solns'[Returned].kids :
              i < j =>
                  /\ solns'[solns'[Returned].kids[j]].type = "TEXT"
                        => solns'[solns'[Returned].kids[i]].type = "TEXT"
                  /\ (solns'[solns'[Returned].kids[i]].type = "TEXT")
                        = (solns'[solns'[Returned].kids[j]].type = "TEXT")
                        => CollectedAt(solns'[Returned].kids[i])
                              < CollectedAt(solns'[Returned].kids[j])

\* C18 amended: ... and within each of the two groups the children follow
\* the order in which the scan collector delivered them: a logical or array
\* branch when it is met, a leaf when the next leaf is opened or the loop
\* ends.
C18_TextFirstCollectedOrder == [][C18_AmendedOrStep]_vars

\* An Or node was returned whose Text child was collected after a child
\* that is not Text and stands before it.
C18_Witness ==
    /\ Planned
    /\ solns[result].type \in {"OR", "MERGE_SORT"}
    /\ Len(solns[result].kids) = 3
    /\ solns[solns[result].kids[1]].type = "TEXT"
    /\ solns[result].kids[2] < solns[result].kids[1]
    /\ solns[result].kids[2] < solns[result].kids[3]

C19_OrStep ==
    AtEndOfOr /\ ReturnsPlan /\ Len(Collected) = 1 =>
        /\ Returned = Collected[1]
        /\ NewNodes = {}
        /\ solns'[Returned].type = solns[Returned].type
        /\ solns'[Returned].kids = solns[Returned].kids

\* C19: when the scan collector yields one solution for an OR root,
\* buildIndexedOr returns that solution unchanged: the same node, with the
\* same children in the same order.
C19_SingleSolutionUnchanged == [][C19_OrStep]_vars

C19_AmendedOrStep ==
    AtEndOfOr /\ ReturnsPlan /\ Len(Collected) = 1 =>
        /\ Returned = Collected[1]
        /\ NewNodes = {}
        /\ solns'[Returned].type = solns[Returned].type
        /\ Len(solns'[Returned].kids) = Len(solns[Returned].kids)
        /\ Range(solns'[Returned].kids) = Range(solns[Returned].kids)
        /\ \A i, j \in DOMAIN solns'[Returned].kids :
              i < j =>
                  /\ solns'[solns'[Returned].kids[j]].type = "TEXT"
                        => solns'[solns'[Returned].kids[i]].type = "TEXT"
                  /\ (solns'[solns'[Returned].kids[i]].type = "TEXT")
                        = (solns'[solns'[Returned].kids[j]].type = "TEXT")
                        => \E a, b \in DOMAIN solns[Returned].kids :
                              /\ a < b
                              /\ solns[Returned].kids[a] = solns'[Returned].kids[i]
                              /\ solns[Returned].kids[b] = solns'[Returned].kids[j]
        /\ (/\ solns[Returned].type = "AND_HASH"
            /\ query.sort \in getSort(solns, Last(solns[Returned].kids)))
              => query.sort \in getSort(solns', Last(solns'[Returned].kids))

\* C19 amended: ... returns that same node, with the same children, its
\* Text children moved in front of the others and the order otherwise
\* kept; the last child of an AndHash still provides the requested sort if
\* it did before.
C19_SingleSolutionTextFirst == [][C19_AmendedOrStep]_vars

\* An OR with one branch, an AND answered by a B-tree scan and a Text leaf,
\* was planned: the AndHash node is returned with the Text leaf first.
C19_Witness ==
    /\ Planned
    /\ input.exprs0[input.root].type = "OR"
    /\ solns[result].type = "AND_HASH"
    /\ Len(solns[result].kids) = 2
    /\ solns[solns[result].kids[1]].type = "TEXT"
    /\ solns[result].kids[2] < solns[result].kids[1]

\* The running call is buildIndexedDataAccess at its entry, and it takes its step.
AtEntry == Running /\ ret = NoRet /\ Top.pc = "start" /\ stack' # stack

\* What the step hands to its caller.
Handed == IF Len(stack) = 1 THEN result' ELSE ret'[1]

ReturnsToCaller ==
    /\ status' # "aborted"
    /\ Len(stack') = Len(stack) - 1
    /\ Len(stack) > 1 => ret' # NoRet

TaggedBoundsGenerating(e) == HasTag(exprs, e) /\ isBoundsGenerating(exprs, e)

NegatedLogical(e) ==
    /\ isLogical(exprs, e)
    /\ ~isBoundsGeneratingNot(exprs, e)
    /\ exprs[e].type \notin {"AND", "OR"}

C20_LeafCase(R, verdict, leaf) ==
    /\ ReturnsToCaller
    /\ Len(solns') >= leaf
    /\ solns'[leaf].type \in {"IXSCAN", "TEXT", "GEO_2D", "GEO_NEAR_2DSPHERE"}
    /\ solns'[leaf].finished = 1
    /\ solns'[leaf].index = exprs[R].idx
    /\ SubSeq(solns', 1, Len(solns)) = solns
    /\ IF Top.inArr \/ verdict = "EXACT" THEN
           /\ Handed = leaf
           /\ Len(solns') = leaf
           /\ solns'[leaf].filter = NULL
       ELSE IF verdict = "INEXACT_COVERED" /\ ~indices[exprs[R].idx].multikey THEN
           /\ Handed = leaf
           /\ Len(solns') = leaf
           /\ solns'[leaf].filter = R
           /\ exprs'[R].live
       ELSE
           /\ Handed = leaf + 1
           /\ Len(solns') = leaf + 1
           /\ solns'[Handed].type = "FETCH"
           /\ solns'[Handed].filter = R
           /\ solns'[Handed].kids = <<leaf>>
           /\ solns'[leaf].filter = NULL
           /\ exprs'[R].live

C20_EntryStep ==
    AtEntry =>
        /\ TaggedBoundsGenerating(Top.root) =>
              C20_LeafCase(Top.root,
                           makeLeafNode(exprs, exprs[Top.root].idx, exprs[Top.root].pos,
                                        Top.root).tight,
                           Len(solns) + 1)
        /\ (~isLogical(exprs, Top.root) /\ ~HasTag(exprs, Top.root))
              \/ NegatedLogical(Top.root)
              => ReturnsToCaller /\ Handed = NULL /\ solns' = solns

\* C20: for a tagged bounds-generating root R, buildIndexedDataAccess builds
\* and finishes one leaf and returns the bare leaf if inArrayOperator or the
\* verdict is EXACT, the leaf with filter R if the verdict is INEXACT_COVERED
\* and the index is not multikey, and otherwise a Fetch with filter R over
\* the leaf; an untagged non-logical root and a negated logical root that
\* generates no bounds yield no plan.
C20_RootLeaf == [][C20_EntryStep]_vars

\* At the top level a predicate root was answered by a Fetch over its leaf:
\* its verdict was INEXACT_FETCH, or INEXACT_COVERED on a multikey index.
C20_Witness ==
    /\ Planned
    /\ ~input.inArr
    /\ input.exprs0[input.root].type = "EQ"
    /\ input.exprs0[input.root].tight = "INEXACT_COVERED"
    /\ indices[input.exprs0[input.root].idx].multikey
    /\ solns[result].type = "FETCH"
    /\ solns[result].filter = input.root

\* A covered predicate root on a non-multikey index became its leaf's filter.
C20_WitnessCovered ==
    /\ Planned
    /\ ~input.inArr
    /\ input.exprs0[input.root].type = "EQ"
    /\ solns[result].type = "IXSCAN"
    /\ solns[result].filter = input.root

\* A NOR root gave no plan.
C20_WitnessNor == NoPlan /\ input.exprs0[input.root].type = "NOR"

\* A negated AND gave no plan.
C20_WitnessNotAnd ==
    /\ NoPlan
    /\ input.exprs0[input.root].type = "NOT"
    /\ input.exprs0[input.exprs0[input.root].kids[1]].type = "AND"

\* An untagged predicate root gave no plan.
C20_WitnessUntagged ==
    /\ NoPlan
    /\ input.exprs0[input.root].type = "EQ"
    /\ ~HasTag(input.exprs0, input.root)

\* The last sub-clause of a $all has returned to the $all's call.
AtEndOfAll ==
    /\ Running
    /\ ret # NoRet
    /\ Top.fn = "all"
    /\ Top.pc = "wait"
    /\ Top.curChild = numChildren(exprs, Top.root)

\* The plans of the sub-clauses of the $all, in order; a sub-clause with no
\* plan has no entry.
SubPlans == IF ret[1] # NULL THEN Append(Top.out, ret[1]) ELSE Top.out

\* The intersection inside what the step returns: under the Fetch at the top
\* level, the returned node itself in an array operator.
Intersection == IF Top.inArr THEN Returned ELSE solns'[Returned].kids[1]

FetchOverIntersection ==
    ~Top.inArr =>
        /\ solns'[Returned].type = "FETCH"
        /\ solns'[Returned].filter = Top.root
        /\ Len(solns'[Returned].kids) = 1

\* A $all's call plans a sub-clause: the callee runs in array context.
SubClauseCall ==
    /\ Running
    /\ Top.fn = "all"
    /\ Len(stack') = Len(stack) + 1
    => /\ stack'[Len(stack')].inArr
       /\ stack'[Len(stack')].root \in Range(exprs[Top.root].kids)
       /\ stack'[Len(stack')].pc = "start"

C21_AllStep ==
    /\ SubClauseCall
    /\ AtEndOfAll =>
          LET n == numChildren(exprs, Top.root)
          IN /\ ReturnsPlan
             /\ FetchOverIntersection
             /\ IF n >= 2
                THEN /\ solns'[Intersection].type = "AND_HASH"
                     /\ Len(solns'[Intersection].kids) = n
                ELSE Intersection = SubPlans[1]

\* C21: for a tagged $all root with n sub-clauses, every sub-clause is
\* planned in array context and the intersection has one child plan per
\* sub-clause: an AndHash with n children for n >= 2, the child itself for
\* n = 1; a sub-clause that produces no indexed plan is not silently ignored.
C21_AllOneChildPerSubClause == [][C21_AllStep]_vars

C21_AmendedAllStep ==
    /\ SubClauseCall
    /\ AtEndOfAll =>
          IF Len(SubPlans) = 0
          THEN /\ Len(stack') = Len(stack) - 1
               /\ status' # "aborted"
               /\ (IF Len(stack) = 1 THEN result' ELSE ret'[1]) = NULL
          ELSE /\ ReturnsPlan
               /\ FetchOverIntersection
               /\ IF Len(SubPlans) >= 2
                  THEN /\ Intersection > Len(solns)
                       /\ solns'[Intersection].type = "AND_HASH"
                       /\ solns'[Intersection].kids = SubPlans
                  ELSE Intersection = SubPlans[1]

\* C21 amended: ... the intersection has one child plan per sub-clause that
\* produced an indexed plan, in the sub-clauses' order: an AndHash for two
\* or more, the plan itself for one, no plan for none; a sub-clause without
\* an indexed plan is skipped.
C21_AllOneChildPerPlannedSubClause == [][C21_AmendedAllStep]_vars

\* A $all with two sub-clauses was planned at the top level as a Fetch over
\* an AndHash of the two sub-clauses' plans.
C21_Witness ==
    /\ Planned
    /\ ~input.inArr
    /\ input.exprs0[input.root].type = "ALL"
    /\ Len(input.exprs0[input.root].kids) = 2
    /\ solns[result].type = "FETCH"
    /\ solns[solns[result].kids[1]].type = "AND_HASH"
    /\ Len(solns[solns[result].kids[1]].kids) = 2

\* A $all with two sub-clauses, one of them with no index, was planned from
\* the other sub-clause alone.
C21_WitnessSkipped ==
    /\ Planned
    /\ ~input.inArr
    /\ input.exprs0[input.root].type = "ALL"
    /\ Len(input.exprs0[input.root].kids) = 2
    /\ solns[result].type = "FETCH"
    /\ solns[solns[result].kids[1]].type = "IXSCAN"

\* makeCollectionScan has returned.
CollectionScanMade == status = "done" /\ solns[result].type = "COLLSCAN"

\* obj has a $natural field with a negative value.
NegativeNatural(obj) == obj.natural # <<>> /\ obj.natural[1] < 0

\* The tree under a in heap ex and the tree under b in heap fx are equal.
RECURSIVE SameTree(_, _, _, _)
SameTree(ex, a, fx, b) ==
    /\ [ex[a] EXCEPT !.kids = <<>>, !.live = TRUE] = [fx[b] EXCEPT !.kids = <<>>, !.live = TRUE]
    /\ Len(ex[a].kids) = Len(fx[b].kids)
    /\ \A i \in DOMAIN ex[a].kids : SameTree(ex, ex[a].kids[i], fx, fx[b].kids[i])

\* The query's own root is as it was.
RootUnmodified == SubSeq(exprs, 1, Len(input.exprs0)) = input.exprs0

\* f is a clone of the query root: another node, equal to it as a tree.
CloneOfRoot(f) ==
    /\ f > Len(input.exprs0)
    /\ exprs[f].live
    /\ SameTree(exprs, f, input.exprs0, input.root)

\* C22: makeCollectionScan returns a CollectionScan whose filter is a clone
\* of the query root, the root itself unmodified, and whose direction is -1
\* if the sort or the hint contains a negative $natural value and +1
\* otherwise, for every combination of sort and hint.
C22_CollectionScanDirection ==
    CollectionScanMade =>
        /\ RootUnmodified
        /\ CloneOfRoot(solns[result].filter)
        /\ solns[result].tailable = query.tailable
        /\ solns[result].direction =
              IF NegativeNatural(query.sort) \/ NegativeNatural(query.hint) THEN -1 ELSE 1

\* The same with whole-number $natural values only: the sort asks for the
\* reverse order and the hint does not.
C22_CollectionScanDirectionWholeNumbers ==
    /\ CollectionScanMade
    /\ \A obj \in {query.sort, query.hint} :
          obj.natural # <<>> => obj.natural[1] \in {-2, 0, 2}
    => solns[result].direction =
          IF NegativeNatural(query.sort) \/ NegativeNatural(query.hint) THEN -1 ELSE 1

\* The canonical root is find({}): the AND with no children.
EmptyAnd ==
    /\ input.exprs0[input.root].type = "AND"
    /\ Len(input.exprs0[input.root].kids) = 0

\* res is the scan bare if the root is the empty AND, and otherwise a Fetch
\* with the scan as its only child and a clone of the root as filter; the
\* root itself is as it was.
BareOrFetched(ex, so, res, scan) ==
    /\ SubSeq(ex, 1, Len(input.exprs0)) = input.exprs0
    /\ so[scan].type = "IXSCAN"
    /\ so[scan].filter = NULL
    /\ so[scan].kids = <<>>
    /\ so[scan].index = query.index
    /\ so[scan].multikey = indices[query.index].multikey
    /\ IF EmptyAnd THEN res = scan
       ELSE /\ res # scan
            /\ so[res].type = "FETCH"
            /\ so[res].kids = <<scan>>
            /\ so[res].filter > Len(input.exprs0)
            /\ ex[so[res].filter].live
            /\ SameTree(ex, so[res].filter, input.exprs0, input.root)

\* The scan of scanWholeIndex: every field bound to all values, backward
\* with the lists reversed if asked for, forward otherwise.
WholeIndexScan(isn) ==
    /\ ~isn.bounds.isSimpleRange
    /\ Len(isn.bounds.fields) = nFields(query.index)
    /\ \A i \in DOMAIN isn.bounds.fields :
          /\ isn.bounds.fields[i].name = indices[query.index].keyPattern[i].field
          /\ isn.bounds.fields[i].intervals = Values
          /\ isn.bounds.fields[i].reversed =
                ((indices[query.index].keyPattern[i].kind = "-1") # (query.direction = -1))
    /\ isn.direction = IF query.direction = -1 THEN -1 ELSE 1

\* The scan of makeIndexScan: a simple range from startKey to endKey, the
\* end key excluded, forward.
SimpleRangeScan(isn) ==
    /\ isn.bounds.isSimpleRange
    /\ isn.bounds.startKey = query.startKey
    /\ isn.bounds.endKey = query.endKey
    /\ ~isn.bounds.endKeyInclusive
    /\ isn.direction = 1

\* The scan in what was returned.
ScanOf(so, res) == IF so[res].type = "FETCH" /\ so[res].kids # <<>> THEN so[res].kids[1] ELSE res

C23_ScanStep ==
    /\ scanWholeIndex =>
          /\ BareOrFetched(exprs', solns', result', ScanOf(solns', result'))
          /\ WholeIndexScan(solns'[ScanOf(solns', result')])
    /\ makeIndexScan =>
          /\ BareOrFetched(exprs', solns', result', ScanOf(solns', result'))
          /\ SimpleRangeScan(solns'[ScanOf(solns', result')])

\* C23: scanWholeIndex and makeIndexScan return the bare IndexScan exactly
\* when the canonical root is an AND with no children, and otherwise a Fetch
\* with that scan as child and a clone of the root as filter, the query's
\* root unmodified.  scanWholeIndex's scan has all-values bounds, and
\* direction -1 with reversed bounds when called with direction -1;
\* makeIndexScan's scan is a simple range with the given startKey and
\* endKey, endKeyInclusive false and direction +1.
C23_WholeIndexPlans == [][C23_ScanStep]_vars

\* A backward whole-index scan under a Fetch: the root was not the empty AND.
C23_Witness ==
    /\ status = "done"
    /\ ~EmptyAnd
    /\ query.direction = -1
    /\ solns[result].type = "FETCH"
    /\ ~solns[solns[result].kids[1]].bounds.isSimpleRange
    /\ solns[solns[result].kids[1]].direction = -1

\* A bare simple-range scan: the root was the empty AND.
C23_WitnessSimpleRange ==
    /\ status = "done"
    /\ EmptyAnd
    /\ solns[result].type = "IXSCAN"
    /\ solns[result].bounds.isSimpleRange

\* The scan collector is at a child of R without a tag: the walk stops.
AtUntaggedChild ==
    /\ Running
    /\ ret = NoRet
    /\ Top.fn \in {"and", "or"}
    /\ Top.pc = "scan"
    /\ Top.curChild <= numChildren(exprs, Top.root)
    /\ ~HasTag(exprs, getChild(exprs, Top.root, Top.curChild))

\* The untagged child and the children after it, in R's order.
RestOfChildren ==
    SubSeq(exprs[Top.root].kids, Top.curChild, numChildren(exprs, Top.root))

LastN(seq, n) == SubSeq(seq, Len(seq) - n + 1, Len(seq))

C24_StopStep ==
    AtUntaggedChild /\ status' # "aborted" =>
        \* the children from the untagged one on are unchanged ...
        /\ \A i \in DOMAIN RestOfChildren :
              \A e \in Subtree(exprs, RestOfChildren[i]) :
                 /\ [exprs'[e] EXCEPT !.live = TRUE] = exprs[e]
                 /\ ReturnsPlan => exprs'[e].live
        \* ... and attached to R in their order (an AND left with one child
        \* hands that child to its Fetch) ...
        /\ ReturnsPlan =>
              \/ /\ exprs'[Top.root].live
                 /\ Len(exprs'[Top.root].kids) >= Len(RestOfChildren)
                 /\ LastN(exprs'[Top.root].kids, Len(RestOfChildren)) = RestOfChildren
              \/ /\ Len(RestOfChildren) = 1
                 /\ exprs[Top.root].type = "AND"
                 /\ solns'[Returned].type = "FETCH"
                 /\ solns'[Returned].filter = RestOfChildren[1]
        \* ... no leaf is made and no bounds are added ...
        /\ \A n \in DOMAIN solns' :
              IF n \in DOMAIN solns
              THEN /\ solns'[n].merged = solns[n].merged
                   /\ solns'[n].type = solns[n].type
                   /\ n # Top.cur => solns'[n].bounds = solns[n].bounds
              ELSE solns'[n].type \notin LeafNodeTypes
        \* ... and the in-flight leaf is finished and emitted.
        /\ Top.cur # NULL =>
              /\ solns'[Top.cur].finished = solns[Top.cur].finished + 1
              /\ ReturnsPlan => Top.cur \in PlanNodes(solns', Returned)

AtLeafChild ==
    /\ Running
    /\ ret = NoRet
    /\ Top.fn \in {"and", "or"}
    /\ Top.pc = "scan"
    /\ ScanContinues(Top)
    /\ isBoundsGenerating(exprs, getChild(exprs, Top.root, Top.curChild))

\* The child the collector is at, and the index its tag names.
ChildAt == getChild(exprs, Top.root, Top.curChild)

TagIndexAt ==
    IF exprs[ChildAt].type = "NOT" THEN exprs[getChild(exprs, ChildAt, 1)].idx
    ELSE exprs[ChildAt].idx

C25_LeafStep ==
    AtLeafChild /\ status' # "aborted" =>
        \* one dispatch for both paths ...
        /\ mergeDecision(exprs[ChildAt].tight, exprs[Top.root].type, TagIndexAt, Top.inArr)
              = newLeafDecision(exprs[ChildAt].tight, exprs[Top.root].type, TagIndexAt,
                                Top.inArr)
        \* ... and an EXACT verdict of the bounds builder drops the child from R
        \* and deletes it.
        /\ exprs[ChildAt].tight = "EXACT" /\ indices[TagIndexAt].type = "btree" =>
              /\ ChildAt \notin Range(exprs'[Top.root].kids)
              /\ ~exprs'[ChildAt].live

\* C25: the decision the scan collector takes for a bounds-generating child
\* (delete it, attach it as the scan's filter, wrap the leaf in a Fetch with
\* it, keep it on R) is the same function of tightness, kind of R, index and
\* inArrayOperator whether the child was merged into the in-flight leaf or
\* opened a new one; an EXACT verdict drops and deletes the child on both
\* paths.
C25_SameDispatchOnBothPaths == [][C25_LeafStep]_vars

\* The predicates (by their original ids) of the tree under f.
PredicatesOf(ex, f) == {ex[e].orig : e \in Subtree(ex, f)}

\* The bounds of leaf n come from predicates that are all part of filter f.
BoundsWithinFilter(ex, so, n, f) ==
    \A i \in DOMAIN so[n].merged : so[n].merged[i].pred \in PredicatesOf(ex, f)

\* The step wrapped a leaf in a Fetch whose filter is the child at hand.
FetchMadeOverLeaf ==
    /\ Len(solns') = Len(solns) + 1
    /\ solns'[Len(solns')].type = "FETCH"
    /\ solns'[Len(solns')].filter = ChildAt

\* The step put the child at hand into the filter of the in-flight leaf.
AffixedToLeaf ==
    /\ Len(stack') = Len(stack)
    /\ stack'[Len(stack')].cur # NULL
    /\ solns'[stack'[Len(stack')].cur].filter # NULL
    /\ ChildAt \in Subtree(exprs', solns'[stack'[Len(stack')].cur].filter)

C26_OrLeafStep ==
    AtLeafChild /\ exprs[Top.root].type = "OR" /\ status' # "aborted" =>
        /\ FetchMadeOverLeaf =>
              BoundsWithinFilter(exprs', solns', solns'[Len(solns')].kids[1], ChildAt)
        /\ AffixedToLeaf =>
              BoundsWithinFilter(exprs', solns', stack'[Len(stack')].cur,
                                 solns'[stack'[Len(stack')].cur].filter)

\* C26: under an OR root, whenever the scan collector attaches a predicate
\* as the filter of a Fetch around a leaf, or as the in-scan filter of a
\* leaf, the bounds of that leaf were produced from predicates that are all
\* part of that filter: no other OR branch has its index entries filtered by
\* this one.
C26_OrFilterCoversItsBounds == [][C26_OrLeafStep]_vars

\* Every branch of the OR at hand is tagged at the first field of its index.
BranchesOnFirstField ==
    \A e \in DOMAIN input.exprs0 :
        input.exprs0[e].type = "OR" =>
            \A i \in DOMAIN input.exprs0[e].kids :
                input.exprs0[input.exprs0[e].kids[i]].pos <= 1

\* C26, for an OR whose branches are all tagged at the first field of their
\* index: the bounds of a leaf under a filter of the OR's collector come
\* from predicates of that filter.
C26_OrFilterCoversItsBoundsFirstField ==
    [][BranchesOnFirstField => C26_OrLeafStep]_vars

\* C27: every predicate whose bounds are placed in a leaf is tagged with
\* that leaf's index, predicates collected from inside an $elemMatch
\* subtree included.
C27_BoundsFromOwnIndex ==
    \A n \in DOMAIN solns :
        solns[n].type \in LeafNodeTypes =>
            \A i \in DOMAIN solns[n].merged :
                input.exprs0[solns[n].merged[i].pred].idx = solns[n].index

\* The leaves of the solution under n.
LeavesOf(so, n) == {l \in PlanNodes(so, n) : so[l].type \in LeafNodeTypes}

\* Leaf l was finished once, and every predicate was merged before that.
FinishedOnceAfterMerging(so, l) ==
    /\ so[l].finished = 1
    /\ \A i \in DOMAIN so[l].merged : so[l].merged[i].fin = 0

\* The collector's currentIndexNumber is the index its in-flight leaf was
\* built on: finishLeafNode gets that index.
CurrentIndexOfCurrentScan ==
    \A d \in DOMAIN stack :
        stack[d].cur # NULL => stack[d].curIdx = solns[stack[d].cur].index

C28_ReturnStep ==
    /\ CurrentIndexOfCurrentScan
    /\ ReturnsPlan =>
          \A l \in LeavesOf(solns', Returned) : FinishedOnceAfterMerging(solns', l)

\* C28: every leaf in a solution returned by buildIndexedDataAccess has been
\* passed to finishLeafNode exactly once, with the index it was built on,
\* after the last predicate was merged into it.
C28_LeavesFinishedOnce == [][C28_ReturnStep]_vars

\* A plan was returned whose scan took two predicates before it was finished.
C28_Witness ==
    /\ Planned
    /\ \E l \in LeavesOf(solns, result) :
          /\ Len(solns[l].merged) = 2
          /\ FinishedOnceAfterMerging(solns, l)

\* A plan of an OR was returned with a Fetch over a finished scan.
C28_WitnessFetch ==
    /\ Planned
    /\ input.exprs0[input.root].type = "OR"
    /\ \E n \in PlanNodes(solns, result) :
          /\ solns[n].type = "FETCH"
          /\ n # result
          /\ solns[solns[n].kids[1]].type = "IXSCAN"
          /\ FinishedOnceAfterMerging(solns, solns[n].kids[1])

\* Every Fetch under n has one child, every intersection and union two or more.
WellFormedPlan(so, n) ==
    \A p \in PlanNodes(so, n) :
        /\ so[p].type = "FETCH" => Len(so[p].kids) = 1
        /\ so[p].type \in {"AND_HASH", "AND_SORTED", "OR", "MERGE_SORT"}
              => Len(so[p].kids) >= 2

\* buildIndexedOr is past its check for children left on the root.
OrBuildsFromCollected ==
    /\ AtEndOfOr
    /\ Top.inArr \/ numChildren(exprs, Top.root) = 0

C29_ReturnStep ==
    /\ ReturnsPlan => WellFormedPlan(solns', Returned)
    /\ OrBuildsFromCollected => Len(Collected) >= 1

\* C29: in every solution returned by buildIndexedDataAccess every Fetch has
\* one child and every And, Or and MergeSort node at least two; buildIndexedOr
\* never builds an Or or MergeSort from an empty list of leaf solutions and
\* never reads the first element of an empty list.
C29_WellFormedPlans == [][C29_ReturnStep]_vars

\* An OR in array context returned an Or node with no children.
OrOfNothingReturned ==
    /\ status = "done"
    /\ result # NULL
    /\ solns[result].type \in {"OR", "MERGE_SORT"}
    /\ solns[result].kids = <<>>

\* C29 for a call whose root carries a tag.
C29_WellFormedPlansOfTaggedRoots ==
    [][HasTag(input.exprs0, input.root) => C29_ReturnStep]_vars

====
